---- MODULE Spec2Model ----
(***************************************************************************)
(* Model of the DICOM Tag Sniffer dashboard: the report parsers of         *)
(* scripts/dashboard.py, the loaders of dashboard.py, xnat_dashboard.py    *)
(* and html_report.py, and the static renderer of html_report.py.          *)
(*                                                                         *)
(* Text is modelled character by character: a Python str is a sequence of  *)
(* one-character strings, a file is the list f.readlines() returns (each   *)
(* line with its "\n", the last one possibly without).  A Python dict or   *)
(* OrderedDict is a sequence of [key, val] records in insertion order, a   *)
(* Python list is a sequence; {} and [] are both the empty sequence.       *)
(***************************************************************************)
EXTENDS Integers, Sequences, FiniteSets, TLC

VARIABLES disk, cache, parsed_data, ret, sniffer, page, session, tmp, env

vars == <<disk, cache, parsed_data, ret, sniffer, page, session, tmp, env>>

\* the state of the wizard of xnat_dashboard.py besides the page
wizard == <<session, tmp, env>>

-----------------------------------------------------------------------------
(* Python str methods and the character classes of re                      *)

\* what str.strip() removes and what \s matches
Whitespace == {" ", "\t", "\n", "\r"}

Digits == {"0", "1", "2", "3", "4", "5", "6", "7", "8", "9"}

Letters ==
  {"a", "b", "c", "d", "e", "f", "g", "h", "i", "j", "k", "l", "m",
   "n", "o", "p", "q", "r", "s", "t", "u", "v", "w", "x", "y", "z",
   "A", "B", "C", "D", "E", "F", "G", "H", "I", "J", "K", "L", "M",
   "N", "O", "P", "Q", "R", "S", "T", "U", "V", "W", "X", "Y", "Z"}

\* what \w matches
WordChars == Letters \cup Digits \cup {"_"}

IsSpace(c) == c \in Whitespace

\* a class that admits every character
AnyCharacter(c) == TRUE

IsWord(c) == c \in WordChars

\* number of consecutive characters of class cls in s from position i on
RECURSIVE RunLen(_, _, _)
RunLen(s, i, cls) ==
  IF i > Len(s) \/ s[i] \notin cls THEN 0 ELSE 1 + RunLen(s, i + 1, cls)

\* number of consecutive characters outside class cls in s from position i on
RECURSIVE RunLenNot(_, _, _)
RunLenNot(s, i, cls) ==
  IF i > Len(s) \/ s[i] \in cls THEN 0 ELSE 1 + RunLenNot(s, i + 1, cls)

\* number of consecutive characters of class cls in s from position i backwards
RECURSIVE RunLenBack(_, _, _)
RunLenBack(s, i, cls) ==
  IF i < 1 \/ s[i] \notin cls THEN 0 ELSE 1 + RunLenBack(s, i - 1, cls)

\* s.rstrip(chars)
RStripChars(s, cls) == SubSeq(s, 1, Len(s) - RunLenBack(s, Len(s), cls))

\* s.lstrip(chars)
LStripChars(s, cls) == SubSeq(s, 1 + RunLen(s, 1, cls), Len(s))

\* s.rstrip("\n")
RStripNewline(s) == RStripChars(s, {"\n"})

\* s.strip()
Strip(s) == LStripChars(RStripChars(s, Whitespace), Whitespace)

\* the whole of s is p
IsExactly(s, p) == s = p

\* s.startswith(p)
StartsWith(s, p) == Len(s) >= Len(p) /\ SubSeq(s, 1, Len(p)) = p

\* position of the first occurrence of sep in s at or after i, 0 when none (s.find)
RECURSIVE FindFrom(_, _, _)
FindFrom(s, sep, i) ==
  IF i + Len(sep) - 1 > Len(s) THEN 0
  ELSE IF SubSeq(s, i, i + Len(sep) - 1) = sep THEN i
  ELSE FindFrom(s, sep, i + 1)

\* an indentation of one space
SingleSpace == <<" ">>

Indent == <<" ", " ">>

-----------------------------------------------------------------------------
(* dict / OrderedDict as a sequence of [key, val] in insertion order       *)

\* a membership test that finds no key
NeverHasKey(d, k) == FALSE

HasKey(d, k) == \E i \in 1..Len(d) : d[i].key = k

KeyIndex(d, k) == CHOOSE i \in 1..Len(d) : d[i].key = k

DictGet(d, k) == d[KeyIndex(d, k)].val

Keys(d) == [i \in 1..Len(d) |-> d[i].key]

\* d[k] = v : a new key goes last, an existing key keeps its position
DictSet(d, k, v) ==
  IF HasKey(d, k)
  THEN [d EXCEPT ![KeyIndex(d, k)] = [key |-> k, val |-> v]]
  ELSE Append(d, [key |-> k, val |-> v])

\* the outcome of a call: a return value or an exception
Ok(v) == [status |-> "ok", val |-> v]

Raise(e) == [status |-> e, val |-> <<>>]

\* None, or a str held in a local variable
None == [set |-> FALSE, s |-> <<>>]

Some(s) == [set |-> TRUE, s |-> s]

\* truth value of a variable that is None or a str
Truthy(v) == v.set /\ Len(v.s) > 0

-----------------------------------------------------------------------------
(* re.match(r"^\((\w{4},\w{4})\)\s+(\w+)\s+(.+)$", line)                   *)

\* [ok, tag, vr, keyword]: the groups of the match, greedy as re matches
TagMatch(line) ==
  LET n == Len(line)
      noMatch == [ok |-> FALSE, tag |-> <<>>, vr |-> <<>>, keyword |-> <<>>]
  IN IF ~ ( /\ n >= 11
            /\ line[1] = "("
            /\ \A i \in 2..5 : IsWord(line[i])
            /\ line[6] = ","
            /\ \A i \in 7..10 : IsWord(line[i])
            /\ line[11] = ")" )
     THEN noMatch
     ELSE
       \* a, b, c: where the VR starts, where it ends, where the keyword starts
       LET Groups(a, b, c) ==
             IF a = 12 \/ b = a \/ c = b THEN noMatch
             ELSE IF c <= n
               THEN [ok |-> TRUE, tag |-> SubSeq(line, 2, 10),
                     vr |-> SubSeq(line, a, b - 1), keyword |-> SubSeq(line, c, n)]
             \* nothing after the second run of blanks: \s+ gives one back to (.+)
             ELSE IF c - b >= 2
               THEN [ok |-> TRUE, tag |-> SubSeq(line, 2, 10),
                     vr |-> SubSeq(line, a, b - 1), keyword |-> SubSeq(line, n, n)]
             ELSE noMatch
           AfterVr(a, b) == Groups(a, b, b + RunLen(line, b, Whitespace))
           FromVr(a) == AfterVr(a, a + RunLen(line, a, WordChars))
       IN FromVr(12 + RunLen(line, 12, Whitespace))

-----------------------------------------------------------------------------
(* parse_standard_elements                                                 *)

ListOfStandardElements ==
  <<"L", "i", "s", "t", " ", "o", "f", " ", "S", "t", "a", "n", "d", "a", "r", "d",
    " ", "E", "l", "e", "m", "e", "n", "t", "s">>

\* a phase 1 that no blank line ends
NeverEndsListing(line, tag_list) == FALSE

\* a phase 1 that any blank line ends
AnyBlankEndsListing(line, tag_list) == Strip(line) = <<>>

\* line.strip() == "" and tag_list: the blank line that ends the listing
EndsListing(line, tag_list) == Strip(line) = <<>> /\ tag_list # <<>>

\* phase 1, from line i on: the catalog built from the tag listing
RECURSIVE StdPhase1(_, _, _, _, _)
StdPhase1(lines, i, in_listing, tag_list, elements) ==
  IF i > Len(lines) THEN elements
  ELSE
    LET Step(line, m) ==
          IF line = ListOfStandardElements
            THEN StdPhase1(lines, i + 1, TRUE, tag_list, elements)
          ELSE IF ~in_listing
            THEN StdPhase1(lines, i + 1, in_listing, tag_list, elements)
          ELSE IF m.ok
            THEN StdPhase1(lines, i + 1, in_listing,
                           Append(tag_list, <<m.tag, m.vr, m.keyword>>),
                           DictSet(elements, m.tag,
                                   [vr |-> m.vr, keyword |-> m.keyword, values |-> <<>>]))
          ELSE IF EndsListing(line, tag_list)
            THEN StdPhase1(lines, i + 1, FALSE, tag_list, elements)
          ELSE StdPhase1(lines, i + 1, in_listing, tag_list, elements)
        OnLine(line) == Step(line, TagMatch(line))
    IN OnLine(RStripNewline(lines[i]))

\* a value list that takes each value once
AppendDistinctValue(elements, tag, v) ==
  LET e == DictGet(elements, tag)
  IN IF \E i \in 1..Len(e.values) : e.values[i] = v THEN elements
     ELSE DictSet(elements, tag, [e EXCEPT !.values = Append(@, v)])

\* elements[current_tag]["values"].append(v)
AppendTagValue(elements, tag, v) ==
  LET e == DictGet(elements, tag)
  IN DictSet(elements, tag, [e EXCEPT !.values = Append(@, v)])

\* phase 2, from line i on: the values appended under the tags of the catalog
RECURSIVE StdPhase2(_, _, _, _)
StdPhase2(lines, i, current_tag, elements) ==
  IF i > Len(lines) THEN elements
  ELSE
    LET Step(line, m) ==
          IF m.ok
            THEN StdPhase2(lines, i + 1,
                           IF HasKey(elements, m.tag) THEN Some(m.tag) ELSE None,
                           elements)
          ELSE IF Truthy(current_tag) /\ StartsWith(line, Indent)
            THEN StdPhase2(lines, i + 1, current_tag,
                           AppendTagValue(elements, current_tag.s, Strip(line)))
          ELSE StdPhase2(lines, i + 1, current_tag, elements)
        OnLine(line) == Step(line, TagMatch(line))
    IN OnLine(RStripNewline(lines[i]))

\* the body of parse_standard_elements on the file at filepath
parse_standard_elements(file) ==
  IF ~file.exists THEN Raise("FileNotFoundError")
  ELSE Ok(StdPhase2(file.lines, 1, None,
                    StdPhase1(file.lines, 1, FALSE, <<>>, <<>>)))

-----------------------------------------------------------------------------
(* parse_private_elements                                                  *)

PrivateElementsLabel ==
  <<"P", "r", "i", "v", "a", "t", "e", " ", "E", "l", "e", "m", "e", "n", "t", "s">>

ListOfElementKeysLabel ==
  <<"L", "i", "s", "t", " ", "o", "f", " ", "E", "l", "e", "m", "e", "n", "t", " ",
    "K", "e", "y", "s">>

\* the number of leading lines that are never taken as the separator (i > 2)
HeaderLineCount == 2

\* a search that takes the first blank line, wherever it stands
RECURSIVE FindFirstBlank(_, _)
FindFirstBlank(lines, j) ==
  IF j > Len(lines) THEN 0
  ELSE IF Strip(lines[j]) = <<>> THEN j
  ELSE FindFirstBlank(lines, j + 1)

\* sep_idx as an index from 1 (Python's i is j - 1), 0 for None
RECURSIVE FindSeparator(_, _)
FindSeparator(lines, j) ==
  IF j > Len(lines) THEN 0
  ELSE
    LET Step(stripped) ==
          IF stripped \in {PrivateElementsLabel, ListOfElementKeysLabel, <<>>}
            THEN IF stripped = <<>> /\ j - 1 > HeaderLineCount THEN j
                 ELSE FindSeparator(lines, j + 1)
          ELSE FindSeparator(lines, j + 1)
    IN Step(Strip(lines[j]))

\* elements[current_key].append(v)
AppendValue(d, k, v) == DictSet(d, k, Append(DictGet(d, k), v))

\* the values section, from line j on
RECURSIVE PrivValues(_, _, _, _)
PrivValues(lines, j, current_key, elements) ==
  IF j > Len(lines) THEN elements
  ELSE
    LET Step(line, stripped) ==
          IF stripped = <<>>
            THEN PrivValues(lines, j + 1, current_key, elements)
          ELSE IF ~StartsWith(line, Indent)
            THEN PrivValues(lines, j + 1, Some(stripped),
                            IF HasKey(elements, stripped) THEN elements
                            ELSE DictSet(elements, stripped, <<>>))
          ELSE IF Truthy(current_key)
            THEN PrivValues(lines, j + 1, current_key,
                            AppendValue(elements, current_key.s, stripped))
          ELSE PrivValues(lines, j + 1, current_key, elements)
        OnLine(line) == Step(line, Strip(line))
    IN OnLine(RStripNewline(lines[j]))

\* a parser that reads the keys of the key listing too
parse_private_with_listing(file) ==
  IF ~file.exists THEN Raise("FileNotFoundError")
  ELSE LET AfterSeparator(sep_idx) ==
             IF sep_idx = 0 THEN Ok(<<>>)
             ELSE Ok(PrivValues(file.lines, HeaderLineCount + 1, None, <<>>))
       IN AfterSeparator(FindSeparator(file.lines, 1))

\* the body of parse_private_elements on the file at filepath
parse_private_elements(file) ==
  IF ~file.exists THEN Raise("FileNotFoundError")
  ELSE LET AfterSeparator(sep_idx) ==
             IF sep_idx = 0 THEN Ok(<<>>)
             ELSE Ok(PrivValues(file.lines, sep_idx + 1, None, <<>>))
       IN AfterSeparator(FindSeparator(file.lines, 1))

-----------------------------------------------------------------------------
(* parse_sequences                                                         *)

StandardSequenceLabel ==
  <<"S", "t", "a", "n", "d", "a", "r", "d", " ", "S", "e", "q", "u", "e", "n", "c", "e">>

PrivateSequenceLabel ==
  <<"P", "r", "i", "v", "a", "t", "e", " ", "S", "e", "q", "u", "e", "n", "c", "e">>

RECURSIVE SeqLines(_, _, _, _)
SeqLines(lines, j, current_key, sequences) ==
  IF j > Len(lines) THEN sequences
  ELSE
    LET Step(line, stripped) ==
          IF \/ StartsWith(line, StandardSequenceLabel)
             \/ StartsWith(line, PrivateSequenceLabel)
             \/ stripped = <<>>
            THEN SeqLines(lines, j + 1, current_key, sequences)
          ELSE IF StartsWith(line, Indent)
            THEN SeqLines(lines, j + 1, current_key,
                          IF Truthy(current_key)
                          THEN AppendValue(sequences, current_key.s, stripped)
                          ELSE sequences)
          ELSE SeqLines(lines, j + 1, Some(stripped),
                        IF HasKey(sequences, stripped) THEN sequences
                        ELSE DictSet(sequences, stripped, <<>>))
        OnLine(line) == Step(line, Strip(line))
    IN OnLine(RStripNewline(lines[j]))

\* the body of parse_sequences on the file at filepath
parse_sequences(file) ==
  IF ~file.exists THEN Ok(<<>>)
  ELSE Ok(SeqLines(file.lines, 1, None, <<>>))

-----------------------------------------------------------------------------
(* parse_date_time                                                         *)

DateTimeElementsLabel ==
  <<"D", "a", "t", "e", "/", "T", "i", "m", "e", " ", "E", "l", "e", "m", "e", "n",
    "t", "s">>

\* f"({tag_hex}) {vr} {keyword}"
DateTimeKey(m) == <<"(">> \o m.tag \o <<")", " ">> \o m.vr \o <<" ">> \o m.keyword

\* a header that keeps the list its key already has
KeepKey(elements, key) ==
  IF HasKey(elements, key) THEN elements ELSE DictSet(elements, key, <<>>)

\* elements[current_key] = []
ResetKey(elements, key) == DictSet(elements, key, <<>>)

RECURSIVE DateTimeLines(_, _, _, _)
DateTimeLines(lines, j, current_key, elements) ==
  IF j > Len(lines) THEN elements
  ELSE
    LET Header(key) ==
          DateTimeLines(lines, j + 1, Some(key), ResetKey(elements, key))
        Step(line, stripped, m) ==
          IF line = DateTimeElementsLabel \/ stripped = <<>>
            THEN DateTimeLines(lines, j + 1, current_key, elements)
          ELSE IF m.ok
            THEN Header(DateTimeKey(m))
          ELSE IF Truthy(current_key) /\ StartsWith(line, Indent)
            THEN DateTimeLines(lines, j + 1, current_key,
                               AppendValue(elements, current_key.s, stripped))
          ELSE DateTimeLines(lines, j + 1, current_key, elements)
        OnLine(line) == Step(line, Strip(line), TagMatch(line))
    IN OnLine(RStripNewline(lines[j]))

\* the body of parse_date_time on the file at filepath
parse_date_time(file) ==
  IF ~file.exists THEN Raise("FileNotFoundError")
  ELSE Ok(DateTimeLines(file.lines, 1, None, <<>>))

-----------------------------------------------------------------------------
(* the flat record parsers                                                 *)

\* lines[1:]
Rest(lines) == SubSeq(lines, 2, Len(lines))

RECURSIVE SimpleItems(_, _, _)
SimpleItems(lines, j, items) ==
  IF j > Len(lines) THEN items
  ELSE LET Step(val) ==
             SimpleItems(lines, j + 1, IF val # <<>> THEN Append(items, val) ELSE items)
       IN Step(Strip(lines[j]))

\* the body of parse_simple_list on the file at filepath
parse_simple_list(file) ==
  IF ~file.exists THEN Ok(<<>>)
  ELSE Ok(SimpleItems(Rest(file.lines), 1, <<>>))

\* s.split(" "): the texts between single spaces, empty ones included
RECURSIVE SplitAtSpaces(_, _)
SplitAtSpaces(s, i) ==
  LET Field(stop) ==
        IF stop > Len(s) THEN <<SubSeq(s, i, Len(s))>>
        ELSE <<SubSeq(s, i, stop - 1)>> \o SplitAtSpaces(s, stop + 1)
  IN Field(i + RunLenNot(s, i, {" "}))

\* s.split(): the maximal runs of non-blank characters of s, from position i on
RECURSIVE SplitFields(_, _)
SplitFields(s, i) ==
  LET Field(start, stop) ==
        IF start > Len(s) THEN <<>>
        ELSE <<SubSeq(s, start, stop - 1)>> \o SplitFields(s, stop)
      From(start) == Field(start, start + RunLenNot(s, start, Whitespace))
  IN From(i + RunLen(s, i, Whitespace))

\* the number of fields a counts line needs
MinCountFields == 6

RECURSIVE CountRows(_, _, _)
CountRows(lines, j, rows) ==
  IF j > Len(lines) THEN rows
  ELSE
    LET Step(line, parts) ==
          IF line = <<>> THEN CountRows(lines, j + 1, rows)
          ELSE IF Len(parts) >= MinCountFields
            THEN CountRows(lines, j + 1,
                           Append(rows, [StudyUID |-> parts[1], Files |-> parts[3],
                                         Over1KB |-> parts[4], Over20KB |-> parts[5],
                                         Over50KB |-> parts[6]]))
          ELSE CountRows(lines, j + 1, rows)
        OnLine(line) == Step(line, SplitFields(line, 1))
    IN OnLine(Strip(lines[j]))

\* parse_counts without its os.path.exists test: open() raises
parse_counts_unchecked(file) ==
  IF ~file.exists THEN Raise("FileNotFoundError")
  ELSE Ok(CountRows(Rest(file.lines), 1, <<>>))

\* the body of parse_counts on the file at filepath
parse_counts(file) ==
  IF ~file.exists THEN Ok(<<>>)
  ELSE Ok(CountRows(Rest(file.lines), 1, <<>>))

PrivateCreatorsLabel ==
  <<"P", "r", "i", "v", "a", "t", "e", " ", "C", "r", "e", "a", "t", "o", "r", "s">>

\* s.split(sep, 1): one part when sep does not occur, else the text before the
\* first occurrence and the text after it
SplitOnce(s, sep) ==
  LET SplitAt(at) ==
        IF at = 0 THEN <<s>>
        ELSE <<SubSeq(s, 1, at - 1), SubSeq(s, at + Len(sep), Len(s))>>
  IN SplitAt(FindFrom(s, sep, 1))

RECURSIVE CreatorRows(_, _, _)
CreatorRows(lines, j, creators) ==
  IF j > Len(lines) THEN creators
  ELSE
    LET Step(line, parts) ==
          IF line # <<>> /\ line # PrivateCreatorsLabel /\ Len(parts) = 2
            THEN CreatorRows(lines, j + 1,
                             Append(creators, [Tag |-> parts[1], CreatorID |-> parts[2]]))
          ELSE CreatorRows(lines, j + 1, creators)
        OnLine(line) == Step(line, SplitOnce(line, <<"\t">>))
    IN OnLine(Strip(lines[j]))

\* the body of parse_private_creators on the file at filepath
parse_private_creators(file) ==
  IF ~file.exists THEN Ok(<<>>)
  ELSE Ok(CreatorRows(file.lines, 1, <<>>))

-----------------------------------------------------------------------------
(* int(str)                                                                *)

DigitValue(c) ==
  CASE c = "0" -> 0 [] c = "1" -> 1 [] c = "2" -> 2 [] c = "3" -> 3 [] c = "4" -> 4
    [] c = "5" -> 5 [] c = "6" -> 6 [] c = "7" -> 7 [] c = "8" -> 8 [] c = "9" -> 9

\* the value of the decimal digits of s, its underscores skipped
RECURSIVE DigitsValue(_, _, _)
DigitsValue(s, i, acc) ==
  IF i > Len(s) THEN acc
  ELSE IF s[i] = "_" THEN DigitsValue(s, i + 1, acc)
  ELSE DigitsValue(s, i + 1, 10 * acc + DigitValue(s[i]))

\* a conversion that gives 0 for what is no number
IntOrZero(s) ==
  IF Len(s) > 0 /\ \A i \in 1..Len(s) : s[i] \in Digits
  THEN Ok(DigitsValue(s, 1, 0)) ELSE Ok(0)

\* int(s): blanks around the number are dropped, one sign may lead, and single
\* underscores may stand between digits; anything else is a ValueError
int(s) ==
  LET WellFormed(body) ==
        /\ Len(body) > 0
        /\ \A i \in 1..Len(body) : body[i] \in Digits \cup {"_"}
        /\ body[1] # "_" /\ body[Len(body)] # "_"
        /\ \A i \in 1..(Len(body) - 1) : ~(body[i] = "_" /\ body[i + 1] = "_")
      Value(negative, body) ==
        IF ~WellFormed(body) THEN Raise("ValueError")
        ELSE IF negative THEN Ok(0 - DigitsValue(body, 1, 0))
        ELSE Ok(DigitsValue(body, 1, 0))
      Signed(t) ==
        IF Len(t) > 0 /\ t[1] \in {"+", "-"}
        THEN Value(t[1] = "-", SubSeq(t, 2, Len(t)))
        ELSE Value(FALSE, t)
  IN Signed(Strip(s))

-----------------------------------------------------------------------------
(* parse_large_private_elements                                            *)

HashPrefix == <<"H", "a", "s", "h", ":", " ">>

CountSeparator == <<",", " ", "c", "o", "u", "n", "t", ":", " ">>

\* [status, val]: the rows of the lines from j on, or the first ValueError of int
RECURSIVE LargeRows(_, _, _)
LargeRows(lines, j, rows) ==
  IF j > Len(lines) THEN Ok(rows)
  ELSE
    LET Row(hash, count) ==
          IF count.status # "ok" THEN Raise(count.status)
          ELSE LargeRows(lines, j + 1, Append(rows, [Hash |-> hash, Count |-> count.val]))
        Step(line, parts) ==
          IF StartsWith(line, HashPrefix) /\ Len(parts) = 2
            THEN Row(SubSeq(parts[1], Len(HashPrefix) + 1, Len(parts[1])), int(parts[2]))
          ELSE LargeRows(lines, j + 1, rows)
        OnLine(line) == Step(line, SplitOnce(line, CountSeparator))
    IN OnLine(Strip(lines[j]))

\* the body of parse_large_private_elements on the file at filepath
parse_large_private_elements(file) ==
  IF ~file.exists THEN Ok(<<>>)
  ELSE LargeRows(file.lines, 1, <<>>)

-----------------------------------------------------------------------------
(* the scan-output directory and the memoized parsers                      *)

\* the ten report files, by their fixed names in the scan-output directory
FileNames ==
  {"standard_elements.txt", "private_elements.txt", "date_time_elements.txt",
   "sop_classes.txt", "dicom_studies.txt", "counts.txt", "private_creators.txt",
   "standard_sequences.txt", "private_sequences.txt", "large_private_elements.txt"}

ParserNames ==
  {"parse_standard_elements", "parse_private_elements", "parse_sequences",
   "parse_date_time", "parse_simple_list", "parse_counts",
   "parse_private_creators", "parse_large_private_elements"}

\* a path at which no file exists
NoFile == [exists |-> FALSE, lines |-> <<>>]

\* a file with the lines readlines() gives
File(lines) == [exists |-> TRUE, lines |-> lines]

\* the function body behind each decorated name
ParserBody(fn, file) ==
  CASE fn = "parse_standard_elements"      -> parse_standard_elements(file)
    [] fn = "parse_private_elements"       -> parse_private_elements(file)
    [] fn = "parse_sequences"              -> parse_sequences(file)
    [] fn = "parse_date_time"              -> parse_date_time(file)
    [] fn = "parse_simple_list"            -> parse_simple_list(file)
    [] fn = "parse_counts"                 -> parse_counts(file)
    [] fn = "parse_private_creators"       -> parse_private_creators(file)
    [] fn = "parse_large_private_elements" -> parse_large_private_elements(file)

\* a call that always runs the function and stores what it returns
Recomputed(c, key, result) ==
  [out |-> result,
   cache |-> IF result.status = "ok" THEN (key :> result.val) @@ c ELSE c]

\* @st.cache_data: a call is answered from the memo when (function, path) is in
\* it; otherwise the body runs and its return value is stored; an exception
\* stores nothing.  [out, cache]
Memoized(c, key, result) ==
  IF key \in DOMAIN c
  THEN [out |-> Ok(c[key]), cache |-> c]
  ELSE [out |-> result,
        cache |-> IF result.status = "ok" THEN (key :> result.val) @@ c ELSE c]

\* a memo keyed by the function alone, whatever the path
CachedByFunction(d, c, fn, path) == Memoized(c, <<fn, "">>, ParserBody(fn, d[path]))

\* the decorated parser fn called on path in directory d with memo c
CachedCall(d, c, fn, path) == Memoized(c, <<fn, path>>, ParserBody(fn, d[path]))

-----------------------------------------------------------------------------
(* loading a scan-output directory: dashboard.main, _load_data and         *)
(* generate_html_report share these lines                                  *)

\* the ten parser calls in the order the loaders make them; guarded holds for
\* the three the loaders call only when os.path.exists(path)
LoadPlan ==
  << [name |-> "std_elements", fn |-> "parse_standard_elements",
      path |-> "standard_elements.txt", guarded |-> TRUE],
     [name |-> "priv_elements", fn |-> "parse_private_elements",
      path |-> "private_elements.txt", guarded |-> TRUE],
     [name |-> "dt_elements", fn |-> "parse_date_time",
      path |-> "date_time_elements.txt", guarded |-> TRUE],
     [name |-> "sop_classes", fn |-> "parse_simple_list",
      path |-> "sop_classes.txt", guarded |-> FALSE],
     [name |-> "studies", fn |-> "parse_simple_list",
      path |-> "dicom_studies.txt", guarded |-> FALSE],
     [name |-> "counts", fn |-> "parse_counts",
      path |-> "counts.txt", guarded |-> FALSE],
     [name |-> "creators", fn |-> "parse_private_creators",
      path |-> "private_creators.txt", guarded |-> FALSE],
     [name |-> "std_sequences", fn |-> "parse_sequences",
      path |-> "standard_sequences.txt", guarded |-> FALSE],
     [name |-> "priv_sequences", fn |-> "parse_sequences",
      path |-> "private_sequences.txt", guarded |-> FALSE],
     [name |-> "large_priv", fn |-> "parse_large_private_elements",
      path |-> "large_private_elements.txt", guarded |-> FALSE] >>

\* a loader that calls every parser whatever os.path.exists says
NeverSkipsCall(d, e) == FALSE

\* `parse(path) if os.path.exists(path) else {}`: the call the loader skips
SkipsCall(d, e) == e.guarded /\ ~d[e.path].exists

\* the calls from the i-th on; an exception of a parser ends the load.
\* [status, data, cache], data a mapping from structure name to structure
RECURSIVE LoadFiles(_, _, _, _)
LoadFiles(d, c, i, data) ==
  IF i > Len(LoadPlan) THEN [status |-> "ok", data |-> data, cache |-> c]
  ELSE
    LET Called(e, r) ==
          IF r.out.status # "ok"
            THEN [status |-> r.out.status, data |-> data, cache |-> r.cache]
          ELSE LoadFiles(d, r.cache, i + 1, (e.name :> r.out.val) @@ data)
        Step(e) ==
          IF SkipsCall(d, e)
            THEN LoadFiles(d, c, i + 1, (e.name :> <<>>) @@ data)
          ELSE Called(e, CachedCall(d, c, e.fn, e.path))
    IN Step(LoadPlan[i])

\* sum(int(r["Files"]) for r in counts), from row i on
RECURSIVE SumFiles(_, _, _)
SumFiles(counts, i, acc) ==
  IF i > Len(counts) THEN Ok(acc)
  ELSE LET Add(n) ==
             IF n.status # "ok" THEN Raise(n.status)
             ELSE SumFiles(counts, i + 1, acc + n.val)
       IN Add(int(counts[i].Files))

\* a total that counts the rows
RowCount(counts) == Ok(Len(counts))

\* sum(int(r["Files"]) for r in counts) if counts else 0
TotalFiles(counts) == IF counts # <<>> THEN SumFiles(counts, 1, 0) ELSE Ok(0)

ModalityTag == <<"0", "0", "0", "8", ",", "0", "0", "6", "0">>

\* std_elements.get("0008,0060", {}).get("values", [])
Modalities(std_elements) ==
  IF HasKey(std_elements, ModalityTag)
  THEN DictGet(std_elements, ModalityTag).values
  ELSE <<>>

\* the ten structures, then total_files and modalities.  [status, data, cache]
LoadReportData(d, c) ==
  LET Derived(l, total) ==
        IF total.status # "ok"
          THEN [status |-> total.status, data |-> l.data, cache |-> l.cache]
        ELSE [status |-> "ok",
              data |-> ("total_files" :> total.val)
                       @@ ("modalities" :> Modalities(l.data["std_elements"]))
                       @@ l.data,
              cache |-> l.cache]
      Loaded(l) ==
        IF l.status # "ok" THEN l ELSE Derived(l, TotalFiles(l.data["counts"]))
  IN Loaded(LoadFiles(d, c, 1, <<>>))

-----------------------------------------------------------------------------
(* html_report.py: the static document                                     *)
(* The document is a sequence of segments: "lit" is markup written by the  *)
(* renderer (t, kept as one string), "text" is characters computed from a  *)
(* value and embedded at that place (d).                                   *)

Lit(t) == <<[k |-> "lit", t |-> t, d |-> <<>>]>>

Text(d) == <<[k |-> "text", t |-> "", d |-> d]>>

\* the character U+2014
EmDash == "U+2014"

\* the character U+0060
Backtick == "U+0060"

\* html.escape of one character (quote=True)
EscapeChar(c) ==
  CASE c = "&"  -> <<"&", "a", "m", "p", ";">>
    [] c = "<"  -> <<"&", "l", "t", ";">>
    [] c = ">"  -> <<"&", "g", "t", ";">>
    [] c = "\"" -> <<"&", "q", "u", "o", "t", ";">>
    [] c = "'"  -> <<"&", "#", "x", "2", "7", ";">>
    [] OTHER    -> <<c>>

\* html.escape(s), from position i on
RECURSIVE EscapeFrom(_, _)
EscapeFrom(s, i) ==
  IF i > Len(s) THEN <<>> ELSE EscapeChar(s[i]) \o EscapeFrom(s, i + 1)

\* an _esc that embeds the text as it is
NoEscape(text) == text

\* _esc(text) for a str
_esc(text) == EscapeFrom(text, 1)

DigitChar(k) == <<"0", "1", "2", "3", "4", "5", "6", "7", "8", "9">>[k + 1]

RECURSIVE NatDigits(_)
NatDigits(n) ==
  IF n < 10 THEN <<DigitChar(n)>> ELSE NatDigits(n \div 10) \o <<DigitChar(n % 10)>>

\* str(n) for an int
str(n) == IF n < 0 THEN <<"-">> \o NatDigits(0 - n) ELSE NatDigits(n)

RECURSIVE GroupThousands(_)
GroupThousands(digits) ==
  IF Len(digits) <= 3 THEN digits
  ELSE GroupThousands(SubSeq(digits, 1, Len(digits) - 3)) \o <<",">>
       \o SubSeq(digits, Len(digits) - 2, Len(digits))

\* f"{n:,}" for an int
FormatComma(n) ==
  IF n < 0 THEN <<"-">> \o GroupThousands(NatDigits(0 - n))
  ELSE GroupThousands(NatDigits(n))

\* <div>{_esc(v) if v.strip() else "&lt;empty&gt;"}</div> for each v of values
RECURSIVE ValueDivs(_, _)
ValueDivs(values, i) ==
  IF i > Len(values) THEN <<>>
  ELSE Lit("<div>")
       \o (IF Strip(values[i]) # <<>> THEN Text(_esc(values[i])) ELSE Lit("&lt;empty&gt;"))
       \o Lit("</div>") \o ValueDivs(values, i + 1)

_tag_row_html(tag_hex, keyword, vr, values) ==
  LET status ==
        IF values # <<>>
        THEN Lit("<span class=\"status-review\">") \o Text(str(Len(values)))
             \o Lit(" value(s)</span>")
        ELSE Lit("<span class=\"status-clean\">Empty / Clean</span>")
  IN Lit("<div class=\"tag-row\">") \o Lit("<div class=\"tag-header\">")
     \o Lit("<span><span class=\"tag-label\">(") \o Text(_esc(tag_hex)) \o Lit(") ")
     \o Text(_esc(keyword)) \o Lit("</span>")
     \o Lit("<span class=\"tag-vr\">") \o Text(_esc(vr)) \o Lit("</span></span>")
     \o status \o Lit("</div>")
     \o (IF values # <<>>
         THEN Lit("<div class=\"values\">") \o ValueDivs(values, 1) \o Lit("</div>")
         ELSE <<>>)
     \o Lit("</div>")

_details(summary, content, open_default) ==
  Lit("<details") \o (IF open_default THEN Lit(" open") ELSE Lit("")) \o Lit("><summary>")
  \o Text(_esc(summary)) \o Lit("</summary><div class=\"content\">") \o content
  \o Lit("</div></details>")

\* '<div class="metric">...' for each (label, value) pair from the i-th on
RECURSIVE MetricDivs(_, _)
MetricDivs(pairs, i) ==
  IF i > Len(pairs) THEN <<>>
  ELSE Lit("<div class=\"metric\"><div class=\"value\">") \o Text(_esc(pairs[i][2]))
       \o Lit("</div><div class=\"label\">") \o Text(_esc(pairs[i][1]))
       \o Lit("</div></div>") \o MetricDivs(pairs, i + 1)

\* ', '.join(f'<code>{_esc(x)}</code>' for x in items), from the i-th on
RECURSIVE CodeList(_, _)
CodeList(items, i) ==
  IF i > Len(items) THEN <<>>
  ELSE (IF i > 1 THEN Lit(", ") ELSE <<>>)
       \o Lit("<code>") \o Text(_esc(items[i])) \o Lit("</code>") \o CodeList(items, i + 1)

\* sep.join(parts) for parts that are segment lists
RECURSIVE JoinParts(_, _, _)
JoinParts(parts, sep, i) ==
  IF i > Len(parts) THEN <<>>
  ELSE (IF i > 1 THEN Lit(sep) ELSE <<>>) \o parts[i] \o JoinParts(parts, sep, i + 1)

\* the return value of parse_scan_summary when there is nothing to report
NoSummary == [present |-> FALSE, total_files |-> 0, dicom_parsed |-> 0, parse_errors |-> 0]

\* a figure that leaves the parse errors among the skipped files
SkippedWithErrors(total, parsed, errors) == total - parsed

\* skipped = total - parsed - errors
Skipped(total, parsed, errors) == total - parsed - errors

_section_overview(std_elements, priv_elements, sop_classes, studies, modalities, total_files, scan_summary) ==
  LET total   == scan_summary.total_files
      parsed  == scan_summary.dicom_parsed
      errors  == scan_summary.parse_errors
      skipped == Skipped(total, parsed, errors)
      parts ==
        <<Text(FormatComma(total)) \o Lit(" files found in project")>>
        \o (IF parsed # 0
            THEN <<Text(FormatComma(parsed)) \o Lit(" DICOM files parsed")>> ELSE <<>>)
        \o (IF errors # 0
            THEN <<Text(FormatComma(errors)) \o Lit(" could not be parsed")>> ELSE <<>>)
        \o (IF skipped # 0
            THEN <<Text(FormatComma(skipped)) \o Lit(" non-DICOM skipped")>> ELSE <<>>)
  IN Lit("<h2>Dataset Overview</h2>") \o Lit("<div class=\"metrics\">")
     \o MetricDivs(<< <<<<"D", "I", "C", "O", "M", " ", "F", "i", "l", "e", "s", " ", "P",
           "a", "r", "s", "e", "d">>, FormatComma(total_files)>>,
                      <<<<"S", "t", "u", "d", "i", "e", "s">>, str(Len(studies))>>,
                      <<<<"S", "t", "a", "n", "d", "a", "r", "d", " ", "T", "a", "g",
                          "s">>, str(Len(std_elements))>>,
                      <<<<"P", "r", "i", "v", "a", "t", "e", " ", "E", "l", "e", "m", "e",
                          "n", "t", " ", "G", "r", "o", "u", "p",
                          "s">>, str(Len(priv_elements))>> >>, 1)
     \o Lit("</div>")
     \o (IF scan_summary.present /\ total > 0
         THEN Lit("<p style=\"color:#888; font-size:0.9em;\">")
              \o JoinParts(parts, " &bull; ", 1) \o Lit("</p>")
         ELSE <<>>)
     \o Lit("<h3>Modalities</h3>")
     \o (IF modalities # <<>> THEN CodeList(modalities, 1)
         ELSE Lit("<div class=\"info-box\">No modality information found</div>"))
     \o Lit("<h3>SOP Classes</h3>")
     \o (IF sop_classes # <<>> THEN CodeList(sop_classes, 1)
         ELSE Lit("<div class=\"info-box\">No SOP classes found</div>"))

\* the fixed PHI taxonomy: groups in order, each a list of (tag key, keyword)
PHI_GROUPS ==
  <<
    [name |-> <<"P", "a", "t", "i", "e", "n", "t", " ", "D", "e", "m", "o", "g", "r",
                "a", "p", "h", "i", "c", "s">>,
     tags |-> <<
       <<<<"0", "0", "1", "0", ",", "0", "0", "1", "0">>,
         <<"P", "a", "t", "i", "e", "n", "t", "N", "a", "m", "e">>>>,
       <<<<"0", "0", "1", "0", ",", "0", "0", "2", "0">>,
         <<"P", "a", "t", "i", "e", "n", "t", "I", "D">>>>,
       <<<<"0", "0", "1", "0", ",", "0", "0", "3", "0">>,
         <<"P", "a", "t", "i", "e", "n", "t", "B", "i", "r", "t", "h", "D", "a", "t",
           "e">>>>,
       <<<<"0", "0", "1", "0", ",", "0", "0", "4", "0">>,
         <<"P", "a", "t", "i", "e", "n", "t", "S", "e", "x">>>>,
       <<<<"0", "0", "1", "0", ",", "1", "0", "1", "0">>,
         <<"P", "a", "t", "i", "e", "n", "t", "A", "g", "e">>>>,
       <<<<"0", "0", "1", "0", ",", "1", "0", "2", "0">>,
         <<"P", "a", "t", "i", "e", "n", "t", "S", "i", "z", "e">>>>,
       <<<<"0", "0", "1", "0", ",", "1", "0", "3", "0">>,
         <<"P", "a", "t", "i", "e", "n", "t", "W", "e", "i", "g", "h", "t">>>>
     >>],
    [name |-> <<"I", "n", "s", "t", "i", "t", "u", "t", "i", "o", "n", "a", "l", " ",
                "/", " ", "R", "e", "f", "e", "r", "r", "i", "n", "g">>,
     tags |-> <<
       <<<<"0", "0", "0", "8", ",", "0", "0", "8", "0">>,
         <<"I", "n", "s", "t", "i", "t", "u", "t", "i", "o", "n", "N", "a", "m", "e">>>>,
       <<<<"0", "0", "0", "8", ",", "0", "0", "9", "0">>,
         <<"R", "e", "f", "e", "r", "r", "i", "n", "g", "P", "h", "y", "s", "i", "c",
           "i", "a", "n", "N", "a", "m", "e">>>>,
       <<<<"0", "0", "0", "8", ",", "1", "0", "1", "0">>,
         <<"S", "t", "a", "t", "i", "o", "n", "N", "a", "m", "e">>>>,
       <<<<"0", "0", "0", "8", ",", "0", "0", "5", "0">>,
         <<"A", "c", "c", "e", "s", "s", "i", "o", "n", "N", "u", "m", "b", "e", "r">>>>
     >>],
    [name |-> <<"D", "e", "s", "c", "r", "i", "p", "t", "i", "o", "n", "s", " ", "(",
                "m", "a", "y", " ", "c", "o", "n", "t", "a", "i", "n", " ", "P", "H",
                "I", ")">>,
     tags |-> <<
       <<<<"0", "0", "0", "8", ",", "1", "0", "3", "0">>,
         <<"S", "t", "u", "d", "y", "D", "e", "s", "c", "r", "i", "p", "t", "i", "o",
           "n">>>>,
       <<<<"0", "0", "0", "8", ",", "1", "0", "3", "E">>,
         <<"S", "e", "r", "i", "e", "s", "D", "e", "s", "c", "r", "i", "p", "t", "i",
           "o", "n">>>>,
       <<<<"0", "0", "0", "8", ",", "1", "0", "8", "0">>,
         <<"A", "d", "m", "i", "t", "t", "i", "n", "g", "D", "i", "a", "g", "n", "o",
           "s", "e", "s", "D", "e", "s", "c", "r", "i", "p", "t", "i", "o", "n">>>>,
       <<<<"0", "0", "1", "0", ",", "2", "1", "B", "0">>,
         <<"A", "d", "d", "i", "t", "i", "o", "n", "a", "l", "P", "a", "t", "i", "e",
           "n", "t", "H", "i", "s", "t", "o", "r", "y">>>>
     >>],
    [name |-> <<"D", "e", "-", "i", "d", "e", "n", "t", "i", "f", "i", "c", "a", "t",
                "i", "o", "n", " ", "S", "t", "a", "t", "u", "s">>,
     tags |-> <<
       <<<<"0", "0", "1", "2", ",", "0", "0", "6", "2">>,
         <<"P", "a", "t", "i", "e", "n", "t", "I", "d", "e", "n", "t", "i", "t", "y",
           "R", "e", "m", "o", "v", "e", "d">>>>,
       <<<<"0", "0", "1", "2", ",", "0", "0", "6", "3">>,
         <<"D", "e", "i", "d", "e", "n", "t", "i", "f", "i", "c", "a", "t", "i", "o",
           "n", "M", "e", "t", "h", "o", "d">>>>
     >>],
    [name |-> <<"U", "I", "D", "s">>,
     tags |-> <<
       <<<<"0", "0", "0", "8", ",", "0", "0", "1", "8">>,
         <<"S", "O", "P", "I", "n", "s", "t", "a", "n", "c", "e", "U", "I", "D">>>>,
       <<<<"0", "0", "2", "0", ",", "0", "0", "0", "D">>,
         <<"S", "t", "u", "d", "y", "I", "n", "s", "t", "a", "n", "c", "e", "U", "I",
           "D">>>>,
       <<<<"0", "0", "2", "0", ",", "0", "0", "0", "E">>,
         <<"S", "e", "r", "i", "e", "s", "I", "n", "s", "t", "a", "n", "c", "e", "U",
           "I", "D">>>>,
       <<<<"0", "0", "2", "0", ",", "0", "0", "5", "2">>,
         <<"F", "r", "a", "m", "e", "O", "f", "R", "e", "f", "e", "r", "e", "n", "c",
           "e", "U", "I", "D">>>>,
       <<<<"0", "0", "0", "2", ",", "0", "0", "0", "3">>,
         <<"M", "e", "d", "i", "a", "S", "t", "o", "r", "a", "g", "e", "S", "O", "P",
           "I", "n", "s", "t", "a", "n", "c", "e", "U", "I", "D">>>>,
       <<<<"0", "0", "0", "8", ",", "0", "0", "1", "4">>,
         <<"I", "n", "s", "t", "a", "n", "c", "e", "C", "r", "e", "a", "t", "o", "r",
           "U", "I", "D">>>>
     >>],
    [name |-> <<"E", "q", "u", "i", "p", "m", "e", "n", "t", " ", "/", " ", "P", "r",
                "o", "t", "o", "c", "o", "l">>,
     tags |-> <<
       <<<<"0", "0", "0", "8", ",", "0", "0", "7", "0">>,
         <<"M", "a", "n", "u", "f", "a", "c", "t", "u", "r", "e", "r">>>>,
       <<<<"0", "0", "0", "8", ",", "1", "0", "9", "0">>,
         <<"M", "a", "n", "u", "f", "a", "c", "t", "u", "r", "e", "r", "M", "o", "d",
           "e", "l", "N", "a", "m", "e">>>>,
       <<<<"0", "0", "1", "8", ",", "1", "0", "0", "0">>,
         <<"D", "e", "v", "i", "c", "e", "S", "e", "r", "i", "a", "l", "N", "u", "m",
           "b", "e", "r">>>>,
       <<<<"0", "0", "1", "8", ",", "1", "0", "2", "0">>,
         <<"S", "o", "f", "t", "w", "a", "r", "e", "V", "e", "r", "s", "i", "o", "n",
           "s">>>>,
       <<<<"0", "0", "1", "8", ",", "1", "0", "3", "0">>,
         <<"P", "r", "o", "t", "o", "c", "o", "l", "N", "a", "m", "e">>>>,
       <<<<"0", "0", "0", "2", ",", "0", "0", "1", "6">>,
         <<"S", "o", "u", "r", "c", "e", "A", "p", "p", "l", "i", "c", "a", "t", "i",
           "o", "n", "E", "n", "t", "i", "t", "y", "T", "i", "t", "l", "e">>>>,
       <<<<"0", "0", "4", "0", ",", "0", "2", "4", "1">>,
         <<"P", "e", "r", "f", "o", "r", "m", "e", "d", "S", "t", "a", "t", "i", "o",
           "n", "A", "E", "T", "i", "t", "l", "e">>>>
     >>],
    [name |-> <<"P", "r", "o", "c", "e", "d", "u", "r", "e", " ", "I", "n", "f", "o">>,
     tags |-> <<
       <<<<"0", "0", "2", "0", ",", "0", "0", "1", "0">>,
         <<"S", "t", "u", "d", "y", "I", "D">>>>,
       <<<<"0", "0", "3", "2", ",", "1", "0", "6", "0">>,
         <<"R", "e", "q", "u", "e", "s", "t", "e", "d", "P", "r", "o", "c", "e", "d",
           "u", "r", "e", "D", "e", "s", "c", "r", "i", "p", "t", "i", "o", "n">>>>,
       <<<<"0", "0", "4", "0", ",", "0", "2", "5", "4">>,
         <<"P", "e", "r", "f", "o", "r", "m", "e", "d", "P", "r", "o", "c", "e", "d",
           "u", "r", "e", "S", "t", "e", "p", "D", "e", "s", "c", "r", "i", "p", "t",
           "i", "o", "n">>>>,
       <<<<"0", "0", "2", "0", ",", "4", "0", "0", "0">>,
         <<"I", "m", "a", "g", "e", "C", "o", "m", "m", "e", "n", "t", "s">>>>,
       <<<<"0", "0", "1", "0", ",", "2", "1", "C", "0">>,
         <<"P", "r", "e", "g", "n", "a", "n", "c", "y", "S", "t", "a", "t", "u", "s">>>>
     >>]
  >>
\* a lookup that finds no entry
NoElement(std_elements, tag_hex) == [vr |-> <<>>, keyword |-> <<>>, values |-> <<>>]

\* std_elements.get(tag_hex, {}): the entry, or one with no vr and no values
GetElement(std_elements, tag_hex) ==
  IF HasKey(std_elements, tag_hex) THEN DictGet(std_elements, tag_hex)
  ELSE [vr |-> <<>>, keyword |-> <<>>, values |-> <<>>]

\* the rows of one PHI group, from its i-th (tag, keyword) reference on
RECURSIVE PhiRows(_, _, _)
PhiRows(std_elements, tags, i) ==
  IF i > Len(tags) THEN <<>>
  ELSE LET elem == GetElement(std_elements, tags[i][1])
       IN _tag_row_html(tags[i][1], tags[i][2], elem.vr, elem.values)
          \o PhiRows(std_elements, tags, i + 1)

PatientDemographics == PHI_GROUPS[1].name

\* the collapsible groups of the taxonomy, from the g-th on
RECURSIVE PhiGroups(_, _)
PhiGroups(std_elements, g) ==
  IF g > Len(PHI_GROUPS) THEN <<>>
  ELSE _details(PHI_GROUPS[g].name, PhiRows(std_elements, PHI_GROUPS[g].tags, 1),
                PHI_GROUPS[g].name = PatientDemographics)
       \o PhiGroups(std_elements, g + 1)

\* ", ".join(_esc(v) if v.strip() else "&lt;empty&gt;" for v in values)
RECURSIVE JoinedValues(_, _)
JoinedValues(values, i) ==
  IF i > Len(values) THEN <<>>
  ELSE (IF i > 1 THEN Lit(", ") ELSE <<>>)
       \o (IF Strip(values[i]) # <<>> THEN Text(_esc(values[i])) ELSE Lit("&lt;empty&gt;"))
       \o JoinedValues(values, i + 1)

\* one row for each date/time key, from the i-th on
RECURSIVE DateTimeRows(_, _)
DateTimeRows(dt_elements, i) ==
  IF i > Len(dt_elements) THEN <<>>
  ELSE Lit("<div class=\"tag-row\"><span class=\"tag-label\">")
       \o Text(_esc(dt_elements[i].key)) \o Lit("</span>")
       \o (IF dt_elements[i].val # <<>>
           THEN Lit("<div class=\"values\"><div>") \o JoinedValues(dt_elements[i].val, 1)
                \o Lit("</div></div>")
           ELSE Lit("<div class=\"values\"><div>&lt;empty&gt;</div></div>"))
       \o Lit("</div>") \o DateTimeRows(dt_elements, i + 1)

_section_phi_review(std_elements, dt_elements) ==
  Lit("<h2>PHI Review</h2>") \o PhiGroups(std_elements, 1)
  \o _details(<<"D", "a", "t", "e", "s", " ", "&", " ", "T", "i", "m", "e", "s">>,
              IF dt_elements # <<>> THEN DateTimeRows(dt_elements, 1)
              ELSE Lit("<div class=\"info-box\">No date/time elements found</div>"),
              FALSE)

\* one row for each catalog entry, from the i-th on
RECURSIVE StdRows(_, _)
StdRows(std_elements, i) ==
  IF i > Len(std_elements) THEN <<>>
  ELSE _tag_row_html(std_elements[i].key, std_elements[i].val.keyword,
                     std_elements[i].val.vr, std_elements[i].val.values)
       \o StdRows(std_elements, i + 1)

\* one row for each private element group, from the i-th on
RECURSIVE PrivRows(_, _)
PrivRows(priv_elements, i) ==
  IF i > Len(priv_elements) THEN <<>>
  ELSE LET values == priv_elements[i].val
       IN Lit("<div class=\"tag-row\"><div class=\"tag-header\"><span class=\"tag-label\">")
          \o Text(_esc(priv_elements[i].key)) \o Lit("</span>")
          \o (IF values # <<>>
              THEN Lit("<span class=\"status-review\">") \o Text(str(Len(values)))
                   \o Lit(" value(s)</span>")
              ELSE Lit("<span class=\"status-clean\">Empty</span>"))
          \o Lit("</div>")
          \o (IF values # <<>>
              THEN Lit("<div class=\"values\">") \o ValueDivs(values, 1) \o Lit("</div>")
              ELSE <<>>)
          \o Lit("</div>") \o PrivRows(priv_elements, i + 1)

\* all_seq[f"{label} {k}"] = v for each (k, v) of sequences, from the i-th on
RECURSIVE MergeSequences(_, _, _, _)
MergeSequences(all_seq, label, sequences, i) ==
  IF i > Len(sequences) THEN all_seq
  ELSE MergeSequences(DictSet(all_seq, label \o <<" ">> \o sequences[i].key,
                              sequences[i].val),
                      label, sequences, i + 1)

\* the standard and the private sequences in one mapping, keys prefixed by origin
AllSequences(std_sequences, priv_sequences) ==
  MergeSequences(MergeSequences(<<>>, <<"[", "S", "t", "d", "]">>, std_sequences, 1),
                 <<"[", "P", "r", "i", "v", "]">>, priv_sequences, 1)

\* one row for each sequence key, from the i-th on
RECURSIVE SeqRows(_, _)
SeqRows(all_seq, i) ==
  IF i > Len(all_seq) THEN <<>>
  ELSE Lit("<div class=\"tag-row\"><span class=\"tag-label\">")
       \o Text(_esc(all_seq[i].key)) \o Lit("</span>")
       \o (IF all_seq[i].val # <<>>
           THEN Lit("<div class=\"values\">") \o ValueDivs(all_seq[i].val, 1) \o Lit("</div>")
           ELSE <<>>)
       \o Lit("</div>") \o SeqRows(all_seq, i + 1)

\* f"{title} ({n})"
CountedTitle(title, n) == title \o <<" ", "(">> \o str(n) \o <<")">>

_section_tag_explorer(std_elements, priv_elements, std_sequences, priv_sequences) ==
  LET all_seq == AllSequences(std_sequences, priv_sequences)
  IN Lit("<h2>Tag Explorer</h2>")
     \o _details(CountedTitle(<<"S", "t", "a", "n", "d", "a", "r", "d", " ", "E", "l", "e",
           "m", "e", "n", "t", "s">>, Len(std_elements)),
                 StdRows(std_elements, 1), FALSE)
     \o _details(CountedTitle(<<"P", "r", "i", "v", "a", "t", "e", " ", "E", "l", "e", "m",
           "e", "n", "t", "s">>, Len(priv_elements)),
                 PrivRows(priv_elements, 1), FALSE)
     \o _details(CountedTitle(<<"S", "e", "q", "u", "e", "n", "c", "e",
           "s">>, Len(all_seq)),
                 IF all_seq # <<>> THEN SeqRows(all_seq, 1)
                 ELSE Lit("<div class=\"info-box\">No sequence elements found</div>"),
                 FALSE)

\* an insertion that puts a row before the rows of the same Count
InsertBeforeEqual(sorted, r) ==
  LET p == Cardinality({i \in 1..Len(sorted) : sorted[i].Count > r.Count})
  IN SubSeq(sorted, 1, p) \o <<r>> \o SubSeq(sorted, p + 1, Len(sorted))

\* the position a row takes in a list sorted by Count, highest first: behind
\* every row whose Count is not lower (sorted(..., reverse=True) is stable)
InsertByCount(sorted, r) ==
  LET p == Cardinality({i \in 1..Len(sorted) : sorted[i].Count >= r.Count})
  IN SubSeq(sorted, 1, p) \o <<r>> \o SubSeq(sorted, p + 1, Len(sorted))

RECURSIVE SortFrom(_, _, _)
SortFrom(rows, i, sorted) ==
  IF i > Len(rows) THEN sorted
  ELSE SortFrom(rows, i + 1, InsertByCount(sorted, rows[i]))

\* sorted(large_priv, key=lambda r: r["Count"], reverse=True)
SortedByCount(large_priv) == SortFrom(large_priv, 1, <<>>)

display_limit == 10

\* rows[:n]
Take(rows, n) == SubSeq(rows, 1, IF Len(rows) < n THEN Len(rows) ELSE n)

\* one table row for each counts row, from the i-th on
RECURSIVE CountTableRows(_, _)
CountTableRows(counts, i) ==
  IF i > Len(counts) THEN <<>>
  ELSE Lit("<tr>")
       \o Lit("<td><code>") \o Text(_esc(counts[i].StudyUID)) \o Lit("</code></td>")
       \o Lit("<td>") \o Text(_esc(counts[i].Files)) \o Lit("</td>")
       \o Lit("<td>") \o Text(_esc(counts[i].Over1KB)) \o Lit("</td>")
       \o Lit("<td>") \o Text(_esc(counts[i].Over20KB)) \o Lit("</td>")
       \o Lit("<td>") \o Text(_esc(counts[i].Over50KB)) \o Lit("</td>")
       \o Lit("</tr>") \o CountTableRows(counts, i + 1)

\* one table row for each hash row, from the i-th on
RECURSIVE HashTableRows(_, _)
HashTableRows(rows, i) ==
  IF i > Len(rows) THEN <<>>
  ELSE Lit("<tr><td><code>") \o Text(_esc(rows[i].Hash)) \o Lit("</code></td><td>")
       \o Text(_esc(str(rows[i].Count))) \o Lit("</td></tr>")
       \o HashTableRows(rows, i + 1)

\* sum(r["Count"] for r in large_priv), from the i-th on
RECURSIVE SumCounts(_, _)
SumCounts(large_priv, i) ==
  IF i > Len(large_priv) THEN 0 ELSE large_priv[i].Count + SumCounts(large_priv, i + 1)

\* the large private elements part of the study summary
LargePrivateSection(large_priv) ==
  LET total_hashes == Len(large_priv)
      total_occurrences == SumCounts(large_priv, 1)
      sorted_priv == SortedByCount(large_priv)
  IN Lit("<h3>Large Private Elements</h3>")
     \o (IF large_priv # <<>>
         THEN Lit("<div class=\"warning-box\">Large private elements detected. These are SHA-256 hashes of private data elements exceeding size thresholds.</div>")
              \o Lit("<div class=\"metrics\"><div class=\"metric\"><div class=\"value\">")
              \o Text(FormatComma(total_hashes))
              \o Lit("</div><div class=\"label\">Unique hashes</div></div>")
              \o Lit("<div class=\"metric\"><div class=\"value\">")
              \o Text(FormatComma(total_occurrences))
              \o Lit("</div><div class=\"label\">Total occurrences</div></div></div>")
              \o Lit("<div class=\"table-scroll\"><table><tr><th>SHA-256 Hash</th><th>Occurrences</th></tr>")
              \o HashTableRows(Take(sorted_priv, display_limit), 1)
              \o Lit("</table></div>")
              \o (IF total_hashes > display_limit
                  THEN Lit("<p><em>Showing top ") \o Text(str(display_limit)) \o Lit(" of ")
                       \o Text(FormatComma(total_hashes))
                       \o Lit(" unique hashes. Full data available in large_private_elements.txt</em></p>")
                  ELSE <<>>)
         ELSE Lit("<div class=\"success-box\">No large private elements detected</div>"))

\* [status, val]: the section, or the ValueError of int(r["Files"])
_section_study_summary(counts, large_priv) ==
  LET Section(total) ==
        IF counts # <<>> /\ total.status # "ok" THEN Raise(total.status)
        ELSE Ok(Lit("<h2>Study Summary</h2>")
                \o (IF counts # <<>>
                    THEN Lit("<div class=\"table-scroll\"><table><tr><th>Study UID</th><th>Files</th><th>&gt;1KB</th><th>&gt;20KB</th><th>&gt;50KB</th></tr>")
                         \o CountTableRows(counts, 1) \o Lit("</table></div>")
                         \o Lit("<div class=\"metrics\"><div class=\"metric\"><div class=\"value\">")
                         \o Text(FormatComma(total.val))
                         \o Lit("</div><div class=\"label\">Total files</div></div></div>")
                    ELSE Lit("<div class=\"info-box\">No study data found</div>"))
                \o LargePrivateSection(large_priv))
  IN Section(SumFiles(counts, 1, 0))

\* one table row for each creator row, from the i-th on
RECURSIVE CreatorTableRows(_, _)
CreatorTableRows(creators, i) ==
  IF i > Len(creators) THEN <<>>
  ELSE Lit("<tr><td><code>") \o Text(_esc(creators[i].Tag)) \o Lit("</code></td><td>")
       \o Text(_esc(creators[i].CreatorID)) \o Lit("</td></tr>")
       \o CreatorTableRows(creators, i + 1)

_section_private_creators(creators) ==
  Lit("<h2>Private Creators</h2>")
  \o (IF creators # <<>>
      THEN Lit("<div class=\"table-scroll\"><table><tr><th>Tag</th><th>Creator ID</th></tr>")
           \o CreatorTableRows(creators, 1) \o Lit("</table></div>")
      ELSE Lit("<div class=\"info-box\">No private creators found</div>"))

\* the name of the scan summary file in the scan-output directory
SummaryFile == "scan_summary.txt"

\* parse_scan_summary: the three counters the scan summary file holds, nothing
\* to report when the file is missing
parse_scan_summary(file) ==
  IF ~file.exists THEN NoSummary
  ELSE [present |-> TRUE, total_files |-> file.lines[1],
        dicom_parsed |-> file.lines[2], parse_errors |-> file.lines[3]]

\* the inline stylesheet, lines 30 to 166
_CSS == "body { ... } .info-box { ... }"

\* the document built from loaded data
ReportDocument(data, scan_summary, project_name, timestamp) ==
  LET Document(title, study) ==
      IF study.status # "ok" THEN Raise(study.status)
      ELSE Ok(Lit("<!DOCTYPE html><html lang=\"en\"><head><meta charset=\"UTF-8\"><meta name=\"viewport\" content=\"width=device-width, initial-scale=1.0\"><title>")
             \o Text(_esc(title)) \o Lit("</title><style>") \o Lit(_CSS)
             \o Lit("</style></head><body>")
             \o Lit("<h1>") \o Text(_esc(title)) \o Lit("</h1>")
             \o Lit("<div class=\"header-info\">")
             \o Lit("<span><strong>Generated:</strong> ") \o Text(_esc(timestamp))
             \o Lit("</span>")
             \o (IF project_name # <<>>
                 THEN Lit("<span><strong>Project:</strong> ") \o Text(_esc(project_name))
                      \o Lit("</span>")
                 ELSE <<>>)
             \o Lit("<span><strong>DICOM files parsed:</strong> ")
             \o Text(FormatComma(data["total_files"])) \o Lit("</span>")
             \o Lit("</div>")
             \o _section_overview(data["std_elements"], data["priv_elements"],
                                  data["sop_classes"], data["studies"],
                                  data["modalities"], data["total_files"], scan_summary)
             \o Lit("<div class=\"section-divider\"></div>")
             \o _section_phi_review(data["std_elements"], data["dt_elements"])
             \o Lit("<div class=\"section-divider\"></div>")
             \o _section_tag_explorer(data["std_elements"], data["priv_elements"],
                                      data["std_sequences"], data["priv_sequences"])
             \o Lit("<div class=\"section-divider\"></div>")
             \o study.val
             \o Lit("<div class=\"section-divider\"></div>")
             \o _section_private_creators(data["creators"])
             \o Lit("</body></html>"))
  IN Document(IF project_name # <<>> THEN <<"P", "H", "I", " ", "R", "e", "p", "o", "r",
        "t", " ", EmDash, " ">> \o project_name
              ELSE <<"P", "H", "I", " ", "R", "e", "p", "o", "r", "t">>,
              _section_study_summary(data["counts"], data["large_priv"]))

\* generate_html_report(output_dir, project_name) at time timestamp.
\* [out, cache]: the document or the exception, and the memo afterwards
generate_html_report(d, c, project_name, timestamp) ==
  LET Loaded(l) ==
        IF l.status # "ok" THEN [out |-> Raise(l.status), cache |-> l.cache]
        ELSE [out |-> ReportDocument(l.data, parse_scan_summary(d[SummaryFile]),
                                     project_name, timestamp),
              cache |-> l.cache]
  IN Loaded(LoadReportData(d, c))


-----------------------------------------------------------------------------
(* the interactive page: the calls a script run makes to Streamlit, in     *)
(* order.  Each drawn element is a record [w, a, d, e]: the call, its text, *)
(* the rows of a table, the flag of an expander (expanded) or of a button  *)
(* (the value the call returned)                                           *)

W(kind, text) == <<[w |-> kind, a |-> text, d |-> <<>>, e |-> FALSE]>>

Dataframe(rows) == <<[w |-> "dataframe", a |-> <<>>, d |-> rows, e |-> FALSE]>>

Expander(label, expanded) == <<[w |-> "expander", a |-> label, d |-> <<>>, e |-> expanded]>>

\* sep.join(items) for str items, from the i-th on
RECURSIVE JoinStr(_, _, _)
JoinStr(items, sep, i) ==
  IF i > Len(items) THEN <<>>
  ELSE (IF i > 1 THEN sep ELSE <<>>) \o items[i] \o JoinStr(items, sep, i + 1)

\* [v if v.strip() else "<empty>" for v in values]
DisplayValues(values) ==
  [i \in 1..Len(values) |-> IF Strip(values[i]) # <<>> THEN values[i] ELSE <<"<", "e", "m",
        "p", "t", "y", ">">>]

\* a list item for each m of items, m between grave accents
BulletItems(items) == [i \in 1..Len(items) |-> <<"-", " ",
      Backtick>> \o items[i] \o <<Backtick>>]

render_overview(std_elements, priv_elements, sop_classes, studies, modalities, total_files) ==
  W("header", <<"D", "a", "t", "a", "s", "e", "t", " ", "O", "v", "e", "r", "v", "i", "e",
        "w">>)
  \o W("metric", <<"D", "I", "C", "O", "M", " ", "F", "i", "l", "e", "s", " ", "P", "a",
        "r", "s", "e", "d", ":", " ">> \o FormatComma(total_files))
  \o W("metric", <<"S", "t", "u", "d", "i", "e", "s", ":", " ">> \o str(Len(studies)))
  \o W("metric", <<"S", "t", "a", "n", "d", "a", "r", "d", " ", "T", "a", "g", "s", ":",
        " ">> \o str(Len(std_elements)))
  \o W("metric", <<"P", "r", "i", "v", "a", "t", "e", " ", "E", "l", "e", "m", "e", "n",
        "t", " ", "G", "r", "o", "u", "p", "s", ":", " ">> \o str(Len(priv_elements)))
  \o W("divider", <<>>)
  \o W("subheader", <<"M", "o", "d", "a", "l", "i", "t", "i", "e", "s">>)
  \o (IF modalities # <<>> THEN W("markdown", JoinStr(BulletItems(modalities), <<"\n">>, 1))
      ELSE W("info", <<"N", "o", " ", "m", "o", "d", "a", "l", "i", "t", "y", " ", "i",
            "n", "f", "o", "r", "m", "a", "t", "i", "o", "n", " ", "f", "o", "u", "n",
            "d">>))
  \o W("subheader", <<"S", "O", "P", " ", "C", "l", "a", "s", "s", "e", "s">>)
  \o (IF sop_classes # <<>> THEN W("markdown", JoinStr(BulletItems(sop_classes), <<"\n">>, 1))
      ELSE W("info", <<"N", "o", " ", "S", "O", "P", " ", "c", "l", "a", "s", "s", "e",
            "s", " ", "f", "o", "u", "n", "d">>))

\* min(200, 30 * n + 40)
ContainerHeight(n) == IF 30 * n + 40 < 200 THEN 30 * n + 40 ELSE 200

\* the label, the status and the values of the (tag, keyword) references of one
\* PHI group, from the i-th on
RECURSIVE PhiTagWidgets(_, _, _)
PhiTagWidgets(std_elements, tags, i) ==
  IF i > Len(tags) THEN <<>>
  ELSE LET Row(tag_hex, keyword, vr, values) ==
             W("markdown", <<"*", "*", Backtick, "(">> \o tag_hex \o <<")", Backtick,
                   " ">> \o keyword \o <<"*", "*", " ", Backtick>> \o vr \o <<Backtick>>)
             \o (IF values = <<>> THEN W("success", <<"E", "m", "p", "t", "y", " ", "/",
                   " ", "C", "l", "e", "a", "n">>)
                 ELSE W("warning", str(Len(values)) \o <<" ", "v", "a", "l", "u", "e", "(",
                       "s", ")">>))
             \o (IF values # <<>>
                 THEN W("container", str(ContainerHeight(Len(values))))
                      \o W("code", JoinStr(DisplayValues(values), <<"\n">>, 1))
                 ELSE <<>>)
           OfElement(elem) == Row(tags[i][1], tags[i][2], elem.vr, elem.values)
       IN OfElement(GetElement(std_elements, tags[i][1]))
          \o PhiTagWidgets(std_elements, tags, i + 1)

\* one expander for each group of the taxonomy, from the g-th on
RECURSIVE PhiExpanders(_, _)
PhiExpanders(std_elements, g) ==
  IF g > Len(PHI_GROUPS) THEN <<>>
  ELSE Expander(PHI_GROUPS[g].name, PHI_GROUPS[g].name = PatientDemographics)
       \o PhiTagWidgets(std_elements, PHI_GROUPS[g].tags, 1)
       \o PhiExpanders(std_elements, g + 1)

\* the date/time keys, from the i-th on
RECURSIVE DateTimeWidgets(_, _)
DateTimeWidgets(dt_elements, i) ==
  IF i > Len(dt_elements) THEN <<>>
  ELSE W("markdown", <<"*", "*">> \o dt_elements[i].key \o <<"*", "*">>)
       \o (IF dt_elements[i].val # <<>>
           THEN W("container", str(ContainerHeight(Len(dt_elements[i].val))))
                \o W("code", JoinStr(DisplayValues(dt_elements[i].val), <<",", " ">>, 1))
           ELSE W("caption", <<"<", "e", "m", "p", "t", "y", ">">>))
       \o DateTimeWidgets(dt_elements, i + 1)

render_phi_review(std_elements, dt_elements) ==
  W("header", <<"P", "H", "I", " ", "R", "e", "v", "i", "e", "w">>)
  \o W("caption", <<"T", "a", "g", "s", " ", "m", "o", "s", "t", " ", "r", "e", "l", "e",
        "v", "a", "n", "t", " ", "f", "o", "r", " ", "P", "r", "o", "t", "e", "c", "t",
        "e", "d", " ", "H", "e", "a", "l", "t", "h", " ", "I", "n", "f", "o", "r", "m",
        "a", "t", "i", "o", "n", " ", "r", "e", "v", "i", "e", "w", ".", " ", "E", "x",
        "p", "a", "n", "d", " ", "e", "a", "c", "h", " ", "g", "r", "o", "u", "p", " ",
        "t", "o", " ", "s", "e", "e", " ", "u", "n", "i", "q", "u", "e", " ", "v", "a",
        "l", "u", "e", "s", " ", "f", "o", "u", "n", "d", " ", "a", "c", "r", "o", "s",
        "s", " ", "t", "h", "e", " ", "d", "a", "t", "a", "s", "e", "t", ".">>)
  \o PhiExpanders(std_elements, 1)
  \o Expander(<<"D", "a", "t", "e", "s", " ", "&", " ", "T", "i", "m", "e", "s">>, FALSE)
  \o (IF dt_elements # <<>> THEN DateTimeWidgets(dt_elements, 1)
      ELSE W("info", <<"N", "o", " ", "d", "a", "t", "e", "/", "t", "i", "m", "e", " ",
            "e", "l", "e", "m", "e", "n", "t", "s", " ", "f", "o", "u", "n", "d">>))

\* the number of values above which _render_tag_values draws a table
CodeBlockLimit == 5

_render_tag_values(values) ==
  IF values = <<>> THEN W("info", <<"N", "o", " ", "v", "a", "l", "u", "e", "s", " ", "r",
        "e", "c", "o", "r", "d", "e", "d">>)
  ELSE IF Len(values) > CodeBlockLimit THEN Dataframe(DisplayValues(values))
  ELSE W("code", JoinStr(DisplayValues(values), <<"\n">>, 1))

\* what st.selectbox(label, options, index=0) returns when the user's choice is
\* the choice-th option: the first option when there is no such option
Selectbox(options, choice) ==
  IF choice \in 1..Len(options) THEN options[choice] ELSE options[1]

\* options.index(selected)
IndexOf(options, selected) ==
  CHOOSE i \in 1..Len(options) :
    options[i] = selected /\ \A j \in 1..(i - 1) : options[j] # selected

\* [f"({tag}) {data['vr']} {data['keyword']}" for tag, data in std_elements.items()]
StandardOptions(std_elements) ==
  [i \in 1..Len(std_elements) |->
     <<"(">> \o std_elements[i].key \o <<")", " ">> \o std_elements[i].val.vr \o <<" ">>
     \o std_elements[i].val.keyword]

\* the pane of a mapping of keys to value lists: the select box and the values
\* of the selected key
KeyPane(label, mapping, choice) ==
  LET Selected(key) ==
        W("selectbox", label)
        \o (IF key # <<>>
            THEN W("subheader", key)
                 \o W("caption", str(Len(DictGet(mapping, key))) \o <<" ", "u", "n", "i",
                       "q", "u", "e", " ", "v", "a", "l", "u", "e", "(", "s", ")">>)
                 \o _render_tag_values(DictGet(mapping, key))
            ELSE <<>>)
  IN Selected(Selectbox(Keys(mapping), choice))

\* the pane of the standard catalog
StandardPane(std_elements, choice) ==
  LET Shown(tag_hex, data) ==
        W("subheader", <<"(">> \o tag_hex \o <<")", " ">> \o data.keyword)
        \o W("caption", <<"V", "R", ":", " ">> \o data.vr \o <<" ", " ", "|", " ",
              " ">> \o str(Len(data.values))
                        \o <<" ", "u", "n", "i", "q", "u", "e", " ", "v", "a", "l", "u",
                             "e", "(", "s", ")">>)
        \o _render_tag_values(data.values)
      Selected(options, selected) ==
        W("selectbox", <<"S", "e", "l", "e", "c", "t", " ", "a", " ", "s", "t", "a", "n",
              "d", "a", "r", "d", " ", "t", "a", "g">>)
        \o (IF selected # <<>>
            THEN Shown(std_elements[IndexOf(options, selected)].key,
                       std_elements[IndexOf(options, selected)].val)
            ELSE <<>>)
      WithOptions(options) == Selected(options, Selectbox(options, choice))
  IN WithOptions(StandardOptions(std_elements))

\* render_tag_explorer: each return leaves the function, the panes behind it
\* are not drawn
render_tag_explorer(std_elements, priv_elements, std_sequences, priv_sequences, choice) ==
  LET SequencesPane(all_seq) ==
        W("tab", <<"S", "e", "q", "u", "e", "n", "c", "e", "s">>)
        \o (IF all_seq = <<>> THEN W("info", <<"N", "o", " ", "s", "e", "q", "u", "e", "n",
              "c", "e", " ", "e", "l", "e", "m", "e", "n", "t", "s", " ", "f", "o", "u",
              "n", "d">>)
            ELSE KeyPane(<<"S", "e", "l", "e", "c", "t", " ", "a", " ", "s", "e", "q", "u",
                  "e", "n", "c", "e", " ", "e", "l", "e", "m", "e", "n",
                  "t">>, all_seq, choice))
      PrivatePane ==
        W("tab", <<"P", "r", "i", "v", "a", "t", "e", " ", "E", "l", "e", "m", "e", "n",
              "t", "s">>)
        \o (IF priv_elements = <<>> THEN W("info", <<"N", "o", " ", "p", "r", "i", "v",
              "a", "t", "e", " ", "e", "l", "e", "m", "e", "n", "t", "s", " ", "f", "o",
              "u", "n", "d">>)
            ELSE KeyPane(<<"S", "e", "l", "e", "c", "t", " ", "a", " ", "p", "r", "i", "v",
                  "a", "t", "e", " ", "e", "l", "e", "m", "e", "n",
                  "t">>, priv_elements, choice)
                 \o SequencesPane(AllSequences(std_sequences, priv_sequences)))
  IN W("header", <<"T", "a", "g", " ", "E", "x", "p", "l", "o", "r", "e", "r">>)
     \o W("tabs", <<"S", "t", "a", "n", "d", "a", "r", "d", " ", "E", "l", "e", "m", "e",
           "n", "t", "s", ",", " ", "P", "r", "i", "v", "a", "t", "e", " ", "E", "l", "e",
           "m", "e", "n", "t", "s", ",", " ", "S", "e", "q", "u", "e", "n", "c", "e",
           "s">>)
     \o W("tab", <<"S", "t", "a", "n", "d", "a", "r", "d", " ", "E", "l", "e", "m", "e",
           "n", "t", "s">>)
     \o (IF std_elements = <<>> THEN W("info", <<"N", "o", " ", "s", "t", "a", "n", "d",
           "a", "r", "d", " ", "e", "l", "e", "m", "e", "n", "t", "s", " ", "f", "o", "u",
           "n", "d">>)
         ELSE StandardPane(std_elements, choice) \o PrivatePane)

\* render_study_summary: the drawn elements, or the exception of int()
render_study_summary(counts, large_priv) ==
  LET LargePrivate ==
        W("divider", <<>>)
        \o W("subheader", <<"L", "a", "r", "g", "e", " ", "P", "r", "i", "v", "a", "t",
              "e", " ", "E", "l", "e", "m", "e", "n", "t", "s">>)
        \o (IF large_priv # <<>>
            THEN W("warning", <<"L", "a", "r", "g", "e", " ", "p", "r", "i", "v", "a", "t",
                  "e", " ", "e", "l", "e", "m", "e", "n", "t", "s", " ", "d", "e", "t",
                  "e", "c", "t", "e", "d", ".", " ", "T", "h", "e", "s", "e", " ", "a",
                  "r", "e", " ", "S", "H", "A", "-", "2", "5", "6", " ", "h", "a", "s",
                  "h", "e", "s", " ", "o", "f", " ", "p", "r", "i", "v", "a", "t", "e",
                  " ", "d", "a", "t", "a", " ", "e", "l", "e", "m", "e", "n", "t", "s",
                  " ", "e", "x", "c", "e", "e", "d", "i", "n", "g", " ", "s", "i", "z",
                  "e", " ", "t", "h", "r", "e", "s", "h", "o", "l", "d", "s", ",", " ",
                  "w", "h", "i", "c", "h", " ", "m", "a", "y", " ", "i", "n", "d", "i",
                  "c", "a", "t", "e", " ", "e", "m", "b", "e", "d", "d", "e", "d", " ",
                  "i", "m", "a", "g", "e", "s", " ", "o", "r", " ", "h", "i", "d", "d",
                  "e", "n", " ", "P", "H", "I", ".">>)
                 \o Dataframe(large_priv)
            ELSE W("success", <<"N", "o", " ", "l", "a", "r", "g", "e", " ", "p", "r", "i",
                  "v", "a", "t", "e", " ", "e", "l", "e", "m", "e", "n", "t", "s", " ",
                  "d", "e", "t", "e", "c", "t", "e", "d">>))
      WithTotal(total) ==
        IF total.status # "ok" THEN Raise(total.status)
        ELSE Ok(W("header", <<"S", "t", "u", "d", "y", " ", "S", "u", "m", "m", "a", "r",
              "y">>)
                \o W("metric", <<"T", "o", "t", "a", "l", " ", "F", "i", "l", "e", "s",
                      ":", " ">> \o FormatComma(total.val))
                \o W("metric", <<"S", "t", "u", "d", "i", "e", "s", ":",
                      " ">> \o str(Len(counts)))
                \o Dataframe(counts)
                \o LargePrivate)
  IN IF counts = <<>>
     THEN Ok(W("header", <<"S", "t", "u", "d", "y", " ", "S", "u", "m", "m", "a", "r",
           "y">>) \o W("info", <<"N", "o", " ", "s", "t", "u", "d", "y", " ", "d", "a",
           "t", "a", " ", "f", "o", "u", "n", "d">>))
     ELSE WithTotal(SumFiles(counts, 1, 0))

\* len(set(c["Creator ID"] for c in creators))
UniqueCreators(creators) == Cardinality({creators[i].CreatorID : i \in 1..Len(creators)})

render_private_creators(creators) ==
  W("header", <<"P", "r", "i", "v", "a", "t", "e", " ", "C", "r", "e", "a", "t", "o", "r",
        "s">>)
  \o W("caption", <<"V", "e", "n", "d", "o", "r", "-", "s", "p", "e", "c", "i", "f", "i",
        "c", " ", "p", "r", "i", "v", "a", "t", "e", " ", "c", "r", "e", "a", "t", "o",
        "r", " ", "I", "D", "s", " ", "f", "o", "u", "n", "d", " ", "i", "n", " ", "t",
        "h", "e", " ", "d", "a", "t", "a", "s", "e", "t">>)
  \o (IF creators = <<>> THEN W("info", <<"N", "o", " ", "p", "r", "i", "v", "a", "t", "e",
        " ", "c", "r", "e", "a", "t", "o", "r", "s", " ", "f", "o", "u", "n", "d">>)
      ELSE W("metric", <<"T", "o", "t", "a", "l", " ", "C", "r", "e", "a", "t", "o", "r",
            " ", "T", "a", "g", "s", ":", " ">> \o str(Len(creators)))
           \o W("metric", <<"U", "n", "i", "q", "u", "e", " ", "V", "e", "n", "d", "o",
                 "r", "s", ":", " ">> \o str(UniqueCreators(creators)))
           \o W("divider", <<>>)
           \o Dataframe(creators))

\* the sections of the sidebar radio
Sections ==
  {"Dataset Overview", "PHI Review", "Tag Explorer", "Study Summary", "Private Creators"}

\* the routing to the section renderer: the drawn elements or the exception
RenderSection(section, d, choice) ==
  CASE section = "Dataset Overview" ->
         Ok(render_overview(d["std_elements"], d["priv_elements"], d["sop_classes"],
                            d["studies"], d["modalities"], d["total_files"]))
    [] section = "PHI Review" -> Ok(render_phi_review(d["std_elements"], d["dt_elements"]))
    [] section = "Tag Explorer" ->
         Ok(render_tag_explorer(d["std_elements"], d["priv_elements"], d["std_sequences"],
                                d["priv_sequences"], choice))
    [] section = "Study Summary" -> render_study_summary(d["counts"], d["large_priv"])
    [] section = "Private Creators" -> Ok(render_private_creators(d["creators"]))
-----------------------------------------------------------------------------
(* the state and the operations                                            *)
(*   disk         the scan-output directory: file name -> file or NoFile   *)
(*   cache        the memo of st.cache_data: <<function, path>> -> value   *)
(*   parsed_data  the structures a loader keeps for the section functions  *)
(*                (st.session_state.parsed_data)                           *)
(*   ret          the outcome of the last call: which operation, on which  *)
(*                path, "ok" or the exception, and the value returned      *)
(*   sniffer      the run of the scanner: the frame of the generator       *)
(*                run_tag_sniffer and what the process has still to write  *)
(*   page         what the last script run drew: the Streamlit calls        *)
(*   session      st.session_state of the wizard, parsed_data apart         *)
(*   tmp          the directories tempfile.mkdtemp has made                  *)
(*   env          what the wizard finds around it: the environment          *)
(*                variables of XNAT, the bundled resources, the directories *)

DirNames == FileNames \cup {SummaryFile}

EmptyDir == [f \in DirNames |-> NoFile]

\* run_tag_sniffer has not been called
NotStarted == [pc |-> "idle"]

\* nothing is drawn yet
NoPage == <<>>

\* session_state after init_state(): no parsed_data, no html_report, no
\* rules_path; output_dir 0 is None
NoReport == [present |-> FALSE, doc |-> <<>>]

FreshSession ==
  [state |-> "startup", output_dir |-> 0, input_dir |-> <<>>, project_name |-> <<>>,
   rules_path |-> "", html_report |-> NoReport]

\* how many scans a session starts at most
MaxScans == 2

NoTempDir == [exists |-> FALSE, files |-> EmptyDir]

NoTemp == [made |-> 0, dirs |-> [i \in 1..MaxScans |-> NoTempDir]]

\* resources/tagsniffer.jar and the two rule files of _RULES_OPTIONS
_DEFAULT_JAR == "tagsniffer.jar"

_DEFAULT_RULES == "simple_rules.xml"

_COMPREHENSIVE_RULES == "example_rules.xml"

\* launched outside XNAT, with the bundled resources in place
LocalEnv ==
  [xnat_host |-> <<>>, xnat_item |-> <<>>,
   resources |-> {_DEFAULT_JAR, _DEFAULT_RULES, _COMPREHENSIVE_RULES},
   directories |-> {}]

\* the wizard has drawn nothing and started no scan
IdleWizard == page = NoPage /\ session = FreshSession /\ tmp = NoTemp /\ env = LocalEnv

NoCall == [op |-> "none", path |-> "", status |-> "ok", val |-> <<>>]

NoData == [present |-> FALSE, data |-> <<>>]

Outcome(op, path, out) == [op |-> op, path |-> path, status |-> out.status, val |-> out.val]

\* a caller invokes the decorated parser fn on path
CallParser(fn, path, result) ==
  \E r \in {Memoized(cache, <<fn, path>>, result)} :
     /\ ret' = Outcome(fn, path, r.out)
     /\ cache' = r.cache
     /\ UNCHANGED <<disk, parsed_data, sniffer, page, wizard>>

ParseStandardElements(path) ==
  CallParser("parse_standard_elements", path, parse_standard_elements(disk[path]))

ParsePrivateElements(path) ==
  CallParser("parse_private_elements", path, parse_private_elements(disk[path]))

ParseSequences(path) == CallParser("parse_sequences", path, parse_sequences(disk[path]))

ParseDateTime(path) == CallParser("parse_date_time", path, parse_date_time(disk[path]))

ParseSimpleList(path) ==
  CallParser("parse_simple_list", path, parse_simple_list(disk[path]))

ParseCounts(path) == CallParser("parse_counts", path, parse_counts(disk[path]))

ParsePrivateCreators(path) ==
  CallParser("parse_private_creators", path, parse_private_creators(disk[path]))

ParseLargePrivateElements(path) ==
  CallParser("parse_large_private_elements", path,
             parse_large_private_elements(disk[path]))

\* dashboard.main with a valid report directory: the load of lines 340-355
\* what main() of dashboard.py draws before it loads the data
DashboardFrame(section) ==
  W("title", <<"D", "I", "C", "O", "M", " ", "T", "a", "g", " ", "S", "n", "i", "f", "f",
        "e", "r", " ", "-", " ", "P", "H", "I", " ", "R", "e", "v", "i", "e", "w", " ",
        "D", "a", "s", "h", "b", "o", "a", "r", "d">>)
  \o W("header", <<"S", "e", "t", "t", "i", "n", "g", "s">>) \o W("text_input", <<"R", "e",
        "p", "o", "r", "t", " ", "o", "u", "t", "p", "u", "t", " ", "d", "i", "r", "e",
        "c", "t", "o", "r", "y">>)
  \o W("divider", <<>>) \o W("radio", section)

\* one run of main() of dashboard.py on the report directory, with the section
\* of the sidebar and the choice of the select boxes
Main(section, choice) ==
  \E l \in {LoadReportData(disk, cache)} :
  \E r \in {IF l.status = "ok" THEN RenderSection(section, l.data, choice)
            ELSE Raise(l.status)} :
     /\ ret' = [op |-> "main", path |-> "", status |-> r.status,
                val |-> IF r.status = "ok" THEN l.data ELSE <<>>]
     /\ cache' = l.cache
     /\ page' = DashboardFrame(section) \o (IF r.status = "ok" THEN r.val ELSE <<>>)
     /\ UNCHANGED <<disk, parsed_data, sniffer, wizard>>

\* _load_data(output_dir): the data kept in the session, loaded when absent
LoadData ==
  IF parsed_data.present
  THEN /\ ret' = [op |-> "_load_data", path |-> "", status |-> "ok",
                  val |-> parsed_data.data]
       /\ UNCHANGED <<disk, cache, parsed_data, sniffer, page, wizard>>
  ELSE \E l \in {LoadReportData(disk, cache)} :
          /\ ret' = [op |-> "_load_data", path |-> "", status |-> l.status,
                     val |-> IF l.status = "ok" THEN l.data ELSE <<>>]
          /\ cache' = l.cache
          /\ parsed_data' = IF l.status = "ok"
                            THEN [present |-> TRUE, data |-> l.data]
                            ELSE parsed_data
          /\ UNCHANGED <<disk, sniffer, page, wizard>>

\* generate_html_report(output_dir, project_name), run at time timestamp
GenerateHtmlReport(project_name, timestamp) ==
  \E r \in {generate_html_report(disk, cache, project_name, timestamp)} :
     /\ ret' = Outcome("generate_html_report", "", r.out)
     /\ cache' = r.cache
     /\ UNCHANGED <<disk, parsed_data, sniffer, page, wizard>>

-----------------------------------------------------------------------------
(* a sample scan-output directory                                          *)

SampleStandardElements ==
  << <<"S", "t", "a", "n", "d", "a", "r", "d", " ", "E", "l", "e", "m", "e", "n", "t", "s",
       "\n">>,
     <<"L", "i", "s", "t", " ", "o", "f", " ", "S", "t", "a", "n", "d", "a", "r", "d", " ",
       "E", "l", "e", "m", "e", "n", "t", "s", "\n">>,
     <<"(", "0", "0", "0", "8", ",", "0", "0", "6", "0", ")", " ", "C", "S", " ", "M", "o",
       "d", "a", "l", "i", "t", "y", "\n">>,
     <<"(", "0", "0", "1", "0", ",", "0", "0", "1", "0", ")", " ", "P", "N", " ", "P", "a",
       "t", "i", "e", "n", "t", "N", "a", "m", "e", "\n">>,
     <<"\n">>,
     <<"(", "0", "0", "0", "8", ",", "0", "0", "6", "0", ")", " ", "C", "S", " ", "M", "o",
       "d", "a", "l", "i", "t", "y", "\n">>,
     <<" ", " ", "M", "R", "\n">>,
     <<"\n">>,
     <<"(", "0", "0", "1", "0", ",", "0", "0", "1", "0", ")", " ", "P", "N", " ", "P", "a",
       "t", "i", "e", "n", "t", "N", "a", "m", "e", "\n">>,
     <<" ", " ", "D", "O", "E", "^", "J", "O", "H", "N", "\n">> >>

SamplePrivateElements ==
  << <<"P", "r", "i", "v", "a", "t", "e", " ", "E", "l", "e", "m", "e", "n", "t", "s",
       "\n">>,
     <<"L", "i", "s", "t", " ", "o", "f", " ", "E", "l", "e", "m", "e", "n", "t", " ", "K",
       "e", "y", "s", "\n">>,
     <<"S", "I", "E", "M", "E", "N", "S", " ", "(", "0", "0", "1", "9", ",", "1", "0", "0",
       "8", ")", "\n">>,
     <<"\n">>,
     <<"S", "I", "E", "M", "E", "N", "S", " ", "(", "0", "0", "1", "9", ",", "1", "0", "0",
       "8", ")", "\n">>,
     <<" ", " ", "I", "M", "A", "G", "E", " ", "N", "U", "M", " ", "4", "\n">> >>

SampleDateTime ==
  << <<"D", "a", "t", "e", "/", "T", "i", "m", "e", " ", "E", "l", "e", "m", "e", "n", "t",
       "s", "\n">>,
     <<"(", "0", "0", "0", "8", ",", "0", "0", "2", "0", ")", " ", "D", "A", " ", "S", "t",
       "u", "d", "y", "D", "a", "t", "e", "\n">>,
     <<" ", " ", "2", "0", "2", "0", "0", "1", "0", "1", "\n">> >>

SampleSopClasses == << <<"S", "O", "P", " ", "C", "l", "a", "s", "s", "e", "s",
      "\n">>, <<"1", ".", "2", ".", "8", "4", "0", ".", "1", "0", "0", "0", "8", ".", "5",
      ".", "1", ".", "4", ".", "1", ".", "1", ".", "4", "\n">> >>

SampleStudies == << <<"S", "t", "u", "d", "i", "e", "s", "\n">>, <<"1", ".", "2", ".", "3",
      "\n">>, <<"1", ".", "2", ".", "4", "\n">> >>

SampleCounts ==
  << <<"S", "t", "u", "d", "y", "\t", "S", "e", "r", "i", "e", "s", "\t", "F", "i", "l",
       "e", "s", "\t", ">", "1", "K", "B", "\t", ">", "2", "0", "K", "B", "\t", ">", "5",
       "0", "K", "B", "\n">>,
     <<"1", ".", "2", ".", "3", " ", "2", " ", "1", "0", " ", "1", " ", "0", " ", "0",
       "\n">>,
     <<"1", ".", "2", ".", "4", " ", "1", " ", "2", "0", " ", "0", " ", "0", " ", "0",
       "\n">> >>

SampleCreators == << <<"P", "r", "i", "v", "a", "t", "e", " ", "C", "r", "e", "a", "t",
      "o", "r", "s", "\n">>, <<"0", "0", "1", "9", ",", "0", "0", "1", "0", "\t", "S", "I",
      "E", "M", "E", "N", "S", " ", "M", "R", " ", "H", "E", "A", "D", "E", "R", "\n">> >>

SampleStandardSequences ==
  << <<"S", "t", "a", "n", "d", "a", "r", "d", " ", "S", "e", "q", "u", "e", "n", "c", "e",
       " ", "E", "l", "e", "m", "e", "n", "t", "s", "\n">>, <<"(", "0", "0", "0", "8", ",",
       "1", "1", "4", "0", ")", " ", "S", "Q", "\n">>, <<" ", " ", "(", "0", "0", "0", "8",
       ",", "1", "1", "5", "0", ")", " ", "U", "I", " ", "1", ".", "2", "\n">> >>

SamplePrivateSequences ==
  << <<"P", "r", "i", "v", "a", "t", "e", " ", "S", "e", "q", "u", "e", "n", "c", "e", " ",
       "E", "l", "e", "m", "e", "n", "t", "s", "\n">>, <<"S", "I", "E", "M", "E", "N", "S",
       " ", "(", "0", "0", "2", "9", ",", "1", "1", "4", "0", ")", "\n">>, <<" ", " ", "i",
       "t", "e", "m", "\n">> >>

SampleLargePrivate == << <<"H", "a", "s", "h", ":", " ", "9", "f", "8", "6", "d", "0", ",",
      " ", "c", "o", "u", "n", "t", ":", " ", "3", "\n">>, <<"H", "a", "s", "h", ":", " ",
      "2", "c", "2", "6", "b", "4", ",", " ", "c", "o", "u", "n", "t", ":", " ", "1", "2",
      "\n">> >>

SampleDir ==
  [f \in DirNames |->
     CASE f = "standard_elements.txt"      -> File(SampleStandardElements)
       [] f = "private_elements.txt"       -> File(SamplePrivateElements)
       [] f = "date_time_elements.txt"     -> File(SampleDateTime)
       [] f = "sop_classes.txt"            -> File(SampleSopClasses)
       [] f = "dicom_studies.txt"          -> File(SampleStudies)
       [] f = "counts.txt"                 -> File(SampleCounts)
       [] f = "private_creators.txt"       -> File(SampleCreators)
       [] f = "standard_sequences.txt"     -> File(SampleStandardSequences)
       [] f = "private_sequences.txt"      -> File(SamplePrivateSequences)
       [] f = "large_private_elements.txt" -> File(SampleLargePrivate)
       [] OTHER                            -> NoFile]

\* the directory d without the files of missing
Without(d, missing) == [f \in DirNames |-> IF f \in missing THEN NoFile ELSE d[f]]


-----------------------------------------------------------------------------
(* run_tag_sniffer: the generator that starts the scanner, yields its      *)
(* output line by line and fails when the scanner exits with an error      *)

\* len(last_lines) > 20, and last_lines[-10:]
BufferLimit == 20

TailLength == 10

\* last_lines.append(stripped), then pop(0) when the buffer is over its limit
Retained(last_lines, stripped) ==
  IF Len(last_lines) + 1 > BufferLimit
  THEN Tail(Append(last_lines, stripped))
  ELSE Append(last_lines, stripped)

\* the first lines of the buffer
FirstLines(last_lines) ==
  SubSeq(last_lines, 1, IF Len(last_lines) > TailLength THEN TailLength ELSE Len(last_lines))

\* last_lines[-10:]
LastLines(last_lines) ==
  SubSeq(last_lines,
         IF Len(last_lines) > TailLength THEN Len(last_lines) - TailLength + 1 ELSE 1,
         Len(last_lines))

\* "\n".join(lines), from the i-th line on
RECURSIVE JoinNewline(_, _)
JoinNewline(lines, i) ==
  IF i > Len(lines) THEN <<>>
  ELSE IF i = Len(lines) THEN lines[i]
  ELSE lines[i] \o <<"\n">> \o JoinNewline(lines, i + 1)

\* the message of the RuntimeError
FailureMessage(returncode, last_lines) ==
  <<"T", "a", "g", " ", "s", "n", "i", "f", "f", "e", "r", " ", "e", "x", "i", "t", "e",
    "d", " ", "w", "i", "t", "h", " ", "c", "o", "d", "e",
    " ">> \o str(returncode) \o <<"\n", "\n", "L", "a", "s", "t", " ", "o", "u", "t", "p",
    "u", "t", ":", "\n">>
    \o JoinNewline(LastLines(last_lines), 1)

\* run_tag_sniffer(...) is called: Popen starts the scanner, which is going to
\* write the lines of output and exit with returncode
RunTagSniffer(output, returncode) ==
  /\ sniffer.pc # "reading"
  /\ sniffer' = [pc |-> "reading", output |-> output, returncode |-> returncode,
                 read |-> 0, last_lines |-> <<>>, yielded |-> <<>>]
  /\ UNCHANGED <<disk, cache, parsed_data, ret, page, wizard>>

\* one turn of the loop over proc.stdout, up to the yield
SnifferYields ==
  /\ sniffer.pc = "reading"
  /\ sniffer.read < Len(sniffer.output)
  /\ \E stripped \in {RStripNewline(sniffer.output[sniffer.read + 1])} :
       sniffer' = [sniffer EXCEPT !.read = @ + 1,
                                  !.last_lines = Retained(@, stripped),
                                  !.yielded = Append(@, stripped)]
  /\ UNCHANGED <<disk, cache, parsed_data, ret, page, wizard>>

\* stdout is at its end: proc.wait(), then the RuntimeError or the return
SnifferExits ==
  /\ sniffer.pc = "reading"
  /\ sniffer.read = Len(sniffer.output)
  /\ sniffer' = [sniffer EXCEPT !.pc = "done"]
  /\ ret' = IF sniffer.returncode # 0
            THEN [op |-> "run_tag_sniffer", path |-> "", status |-> "RuntimeError",
                  val |-> FailureMessage(sniffer.returncode, sniffer.last_lines)]
            ELSE [op |-> "run_tag_sniffer", path |-> "", status |-> "ok", val |-> <<>>]
  /\ UNCHANGED <<disk, cache, parsed_data, page, wizard>>


-----------------------------------------------------------------------------
(* the wizard of xnat_dashboard.py: each action is one run of main(), which *)
(* draws the screen of the session's state                                 *)

\* a rerun the script asks for with st.rerun(): the last thing of the page
Rerun == W("rerun", <<>>)

RerunPending(p) == Len(p) > 0 /\ p[Len(p)].w = "rerun"

HasButton(p, label) == \E i \in 1..Len(p) : p[i].w = "button" /\ p[i].a = label

\* st.button(label) is true in the run that follows a click on that button; no
\* click is <<>>.  A button can be clicked when the last run drew it and asked
\* for no rerun
CanClick(click) == click = <<>> \/ (~RerunPending(page) /\ HasButton(page, click))

\* st.button(label) drawn in a run that follows the click click: the flag e is
\* the value it returns
Button(label, click) == <<[w |-> "button", a |-> label, d |-> <<>>, e |-> click = label]>>

\* the button st.button(label) that returned True, if the page holds one
Clicked(p, label) == \E i \in 1..Len(p) : p[i].w = "button" /\ p[i].a = label /\ p[i].e

RunButton == <<"R", "u", "n", " ", "P", "H", "I", " ", "D", "e", "t", "e", "c", "t", "i",
      "o", "n", " ", "o", "n", " ", "t", "h", "i", "s", " ", "P", "r", "o", "j", "e", "c",
      "t">>

BackButton == <<"B", "a", "c", "k", " ", "t", "o", " ", "S", "t", "a", "r", "t">>

NewScanButton == <<"R", "u", "n", " ", "N", "e", "w", " ", "S", "c", "a", "n">>

\* os.path.basename(path): what follows the last "/"
RECURSIVE Basename(_, _)
Basename(path, i) ==
  IF i < 1 \/ path[i] = "/" THEN SubSeq(path, i + 1, Len(path)) ELSE Basename(path, i - 1)

\* the labels of the rules select box with their files
_RULES_OPTIONS ==
  << [label |-> <<"S", "i", "m", "p", "l", "e", " ", "(", "5", " ", "r", "u", "l", "e",
        "s", ")", " ", EmDash, " ", "m", "i", "n", "i", "m", "a", "l", " ", "n", "o", "i",
        "s", "e", " ", "r", "e", "d", "u", "c", "t", "i", "o", "n", ",", " ", "s", "h",
        "o", "w", "s", " ", "m", "o", "r", "e", " ", "r", "a", "w", " ", "v", "a", "l",
        "u", "e", "s">>,
      path |-> _DEFAULT_RULES],
     [label |-> <<"C", "o", "m", "p", "r", "e", "h", "e", "n", "s", "i", "v", "e", " ",
           "(", "2", "0", " ", "r", "u", "l", "e", "s", ")", " ", EmDash, " ", "a", "g",
           "g", "r", "e", "s", "s", "i", "v", "e", " ", "d", "a", "t", "e", "/", "v", "a",
           "l", "u", "e", " ", "c", "o", "n", "s", "o", "l", "i", "d", "a", "t", "i", "o",
           "n">>,
      path |-> _COMPREHENSIVE_RULES] >>

\* a mkdtemp that gives the name of the first directory again
ReuseTemp(t) ==
  [made |-> 1, dirs |-> [t.dirs EXCEPT ![1] = [exists |-> TRUE, files |-> EmptyDir]]]

\* tempfile.mkdtemp(): a new, empty directory with a name no directory had
MakeTemp(t) ==
  [made |-> t.made + 1,
   dirs |-> [t.dirs EXCEPT ![t.made + 1] = [exists |-> TRUE, files |-> EmptyDir]]]

\* shutil.rmtree(output_dir, ignore_errors=True) when output_dir is a directory
RemoveTemp(t, output_dir) ==
  IF output_dir # 0 /\ t.dirs[output_dir].exists
  THEN [t EXCEPT !.dirs[output_dir] = NoTempDir]
  ELSE t

\* render_startup
RenderStartup(click, typed, rules) ==
  /\ session.state = "startup"
  /\ CanClick(click)
  /\ click = RunButton => tmp.made < MaxScans
  /\ LET Top(input_dir) ==
           W("title", <<"D", "I", "C", "O", "M", " ", "T", "a", "g", " ", "S", "n", "i",
                 "f", "f", "e", "r", " ", "-", " ", "P", "H", "I", " ", "D", "e", "t", "e",
                 "c", "t", "i", "o", "n">>)
           \o W("caption", <<"S", "c", "a", "n", " ", "D", "I", "C", "O", "M", " ", "f",
                 "i", "l", "e", "s", " ", "i", "n", " ", "t", "h", "i", "s", " ", "p", "r",
                 "o", "j", "e", "c", "t", " ", "f", "o", "r", " ", "P", "r", "o", "t", "e",
                 "c", "t", "e", "d", " ", "H", "e", "a", "l", "t", "h", " ", "I", "n", "f",
                 "o", "r", "m", "a", "t", "i", "o", "n", ".">>)
           \o W("divider", <<>>)
           \o (IF env.xnat_host # <<>>
               THEN W("markdown", <<"*", "*", "X", "N", "A", "T", " ", "H", "o", "s", "t",
                     ":", "*", "*", " ", Backtick>> \o env.xnat_host \o <<Backtick>>)
                    \o W("markdown", <<"*", "*", "P", "r", "o", "j", "e", "c", "t", ":",
                          "*", "*", " ", Backtick>> \o env.xnat_item \o <<Backtick>>)
               ELSE <<>>)
           \o (IF env.xnat_item # <<>>
               THEN W("info", <<"D", "I", "C", "O", "M", " ", "d", "a", "t", "a", " ", "p",
                     "a", "t", "h", ":", " ", Backtick>> \o input_dir \o <<Backtick>>)
               ELSE W("warning", <<"X", "N", "A", "T", " ", "d", "a", "t", "a", " ", "m",
                     "o", "u", "n", "t", " ", "n", "o", "t", " ", "d", "e", "t", "e", "c",
                     "t", "e", "d", ".", " ", "E", "n", "t", "e", "r", " ", "a", " ", "p",
                     "a", "t", "h", " ", "m", "a", "n", "u", "a", "l", "l", "y", " ", "f",
                     "o", "r", " ", "l", "o", "c", "a", "l", " ", "t", "e", "s", "t", "i",
                     "n", "g", ".">>)
                    \o W("text_input", <<"P", "a", "t", "h", " ", "t", "o", " ", "D", "I",
                          "C", "O", "M", " ", "f", "i", "l", "e", "s">>))
         Form == W("selectbox", <<"S", "c", "a", "n", " ", "r", "u", "l", "e",
               "s">>) \o W("divider", <<>>) \o Button(RunButton, click)
         Screen(input_dir) ==
           IF input_dir = <<>> \/ input_dir \notin env.directories
           THEN /\ page' = Top(input_dir) \o W("caption", <<"W", "a", "i", "t", "i", "n",
                 "g", " ", "f", "o", "r", " ", "a", " ", "v", "a", "l", "i", "d", " ", "D",
                 "I", "C", "O", "M", " ", "d", "i", "r", "e", "c", "t", "o", "r", "y", ".",
                 ".", ".">>)
                /\ UNCHANGED <<session, tmp>>
           ELSE IF click = RunButton
           THEN /\ session' = [session EXCEPT
                                 !.input_dir = input_dir,
                                 !.project_name = IF env.xnat_item # <<>> THEN env.xnat_item
                                                  ELSE Basename(input_dir, Len(input_dir)),
                                 !.output_dir = MakeTemp(tmp).made,
                                 !.rules_path = _RULES_OPTIONS[rules].path,
                                 !.state = "running"]
                /\ tmp' = MakeTemp(tmp)
                /\ page' = Top(input_dir) \o Form \o Rerun
           ELSE /\ page' = Top(input_dir) \o Form
                /\ UNCHANGED <<session, tmp>>
     IN Screen(IF env.xnat_item # <<>> THEN <<"/", "d", "a", "t", "a", "/", "p", "r", "o",
           "j", "e", "c", "t", "s", "/">> \o env.xnat_item
               ELSE Strip(typed))
  /\ UNCHANGED <<disk, cache, parsed_data, ret, sniffer, env>>

\* the buffer of run_tag_sniffer after the lines of output from the i-th on
RECURSIVE RetainedAll(_, _, _)
RetainedAll(output, i, last_lines) ==
  IF i > Len(output) THEN last_lines
  ELSE RetainedAll(output, i + 1, Retained(last_lines, RStripNewline(output[i])))

\* the frame of run_tag_sniffer when the loop of render_running has drained it
Drained(output, returncode) ==
  [pc |-> "done", output |-> output, returncode |-> returncode, read |-> Len(output),
   last_lines |-> RetainedAll(output, 1, <<>>),
   yielded |-> [i \in 1..Len(output) |-> RStripNewline(output[i])]]

\* the files the scanner writes, over what the directory holds
Written(dir, written) ==
  [exists |-> TRUE,
   files |-> [f \in DirNames |-> IF written[f].exists THEN written[f] ELSE dir.files[f]]]

JavaMissing ==
  <<"J", "a", "v", "a", " ", "i", "s", " ", "r", "e", "q", "u", "i", "r", "e", "d", " ",
    "b", "u", "t", " ", "c", "o", "u", "l", "d", " ", "n", "o", "t", " ", "b", "e", " ",
    "f", "o", "u", "n", "d", " ", "o", "r", " ", "i", "n", "s", "t", "a", "l", "l", "e",
    "d", ".", "\n", "\n", "T", "o", " ", "f", "i", "x", " ", "t", "h", "i", "s", ",", " ",
    "a", "d", "d", " ", "J", "a", "v", "a", " ", "t", "o", " ", "t", "h", "e", " ", "c",
    "o", "n", "t", "a", "i", "n", "e", "r", " ", "i", "m", "a", "g", "e", ":", "\n",
    Backtick, Backtick, Backtick, "\n", "a", "p", "t", "-", "g", "e", "t", " ", "i", "n",
    "s", "t", "a", "l", "l", " ", "-", "y", " ", "d", "e", "f", "a", "u", "l", "t", "-",
    "j", "r", "e", "-", "h", "e", "a", "d", "l", "e", "s", "s", "\n", Backtick, Backtick,
    Backtick, "\n", "O", "r", " ", "i", "n", "s", "t", "a", "l", "l", " ", "v", "i", "a",
    " ", "c", "o", "n", "d", "a", ":", "\n", Backtick, Backtick, Backtick, "\n", "c", "o",
    "n", "d", "a", " ", "i", "n", "s", "t", "a", "l", "l", " ", "-", "c", " ", "c", "o",
    "n", "d", "a", "-", "f", "o", "r", "g", "e", " ", "o", "p", "e", "n", "j", "d", "k",
    "\n", Backtick, Backtick, Backtick>>

\* a "Back to Start" that leaves the running screen without a click
BackUnasked(drawn, click) ==
  /\ page' = drawn \o Button(BackButton, click) \o Rerun
  /\ session' = [session EXCEPT !.state = "startup"]

\* the error and the "Back to Start" button of render_running; the click on the
\* button sets the state and asks for the rerun
BackToStart(drawn, click) ==
  /\ page' = drawn \o Button(BackButton, click) \o (IF click = BackButton THEN Rerun ELSE <<>>)
  /\ session' = IF click = BackButton THEN [session EXCEPT !.state = "startup"] ELSE session

\* render_running: java is what ensure_java() finds; the scanner writes the
\* lines of output and the files of written, and exits with returncode
RenderRunning(click, java, output, returncode, written) ==
  /\ session.state = "running"
  /\ CanClick(click)
  /\ LET Header == W("header", <<"R", "u", "n", "n", "i", "n", "g", " ", "P", "H", "I",
        " ", "D", "e", "t", "e", "c", "t", "i", "o", "n", ".", ".", ".">>)
         Progress ==
           Header \o W("status", <<"S", "c", "a", "n", "n", "i", "n", "g", " ", "D", "I",
                 "C", "O", "M", " ", "f", "i", "l", "e", "s", ".", ".",
                 ".">>) \o W("progress", <<"S", "t", "a", "r", "t", "i", "n", "g", ".",
                 ".", ".">>)
           \o (IF output # <<>> THEN W("code", RStripNewline(output[Len(output)])) ELSE <<>>)
     IN IF ~java
        THEN /\ BackToStart(Header \o W("error", JavaMissing), click)
             /\ UNCHANGED <<tmp, sniffer, ret>>
        ELSE IF _DEFAULT_JAR \notin env.resources
        THEN /\ page' = Header \o W("error", <<"T", "a", "g", " ", "s", "n", "i", "f", "f",
              "e", "r", " ", "J", "A", "R", " ", "n", "o", "t", " ", "f", "o", "u", "n",
              "d", " ", "a", "t", ":", " ", Backtick, "t", "a", "g", "s", "n", "i", "f",
              "f", "e", "r", ".", "j", "a", "r", Backtick>>)
             /\ UNCHANGED <<session, tmp, sniffer, ret>>
        ELSE IF session.rules_path \notin env.resources
        THEN /\ page' = Header \o W("error", <<"S", "c", "a", "n", " ", "r", "u", "l", "e",
              "s", " ", "n", "o", "t", " ", "f", "o", "u", "n", "d">>)
             /\ UNCHANGED <<session, tmp, sniffer, ret>>
        ELSE /\ tmp' = [tmp EXCEPT !.dirs[session.output_dir] = Written(@, written)]
             /\ sniffer' = Drained(output, returncode)
             /\ IF returncode # 0
                THEN /\ ret' = [op |-> "run_tag_sniffer", path |-> "", status |-> "RuntimeError",
                                val |-> FailureMessage(returncode, sniffer'.last_lines)]
                     /\ BackToStart(Progress \o W("status", <<"S", "c", "a", "n", " ", "f",
                           "a", "i", "l", "e", "d">>)
                                    \o W("error", <<"E", "r", "r", "o", "r", ":",
                                          " ">> \o ret'.val), click)
                ELSE /\ ret' = [op |-> "run_tag_sniffer", path |-> "", status |-> "ok",
                                val |-> <<>>]
                     /\ IF ~tmp'.dirs[session.output_dir].files["standard_elements.txt"].exists
                        THEN BackToStart(
                               Progress \o W("progress", <<"C", "o", "m", "p", "l", "e",
                                     "t", "e", "!">>)
                               \o W("status", <<"S", "c", "a", "n", " ", "c", "o", "m",
                                     "p", "l", "e", "t", "e", "!">>)
                               \o W("error", <<"T", "a", "g", " ", "s", "n", "i", "f", "f",
                                     "e", "r", " ", "c", "o", "m", "p", "l", "e", "t", "e",
                                     "d", " ", "b", "u", "t", " ", "n", "o", " ", "o", "u",
                                     "t", "p", "u", "t", " ", "f", "i", "l", "e", "s", " ",
                                     "w", "e", "r", "e", " ", "g", "e", "n", "e", "r", "a",
                                     "t", "e", "d", ".">>),
                               click)
                        ELSE /\ session' = [session EXCEPT !.state = "dashboard"]
                             /\ page' = Progress \o W("progress", <<"C", "o", "m", "p",
                                   "l", "e", "t", "e", "!">>)
                                        \o W("status", <<"S", "c", "a", "n", " ", "c", "o",
                                              "m", "p", "l", "e", "t", "e",
                                              "!">>) \o Rerun
  /\ UNCHANGED <<disk, cache, parsed_data, env>>

\* the memo entries of the files of one temporary directory, by file name
DirCache(c, dir) ==
  [k \in {<<q[1], q[2][2]>> : q \in {p \in DOMAIN c : p[2][1] = dir}} |->
     c[<<k[1], <<dir, k[2]>>>>]]

\* the memo with the entries of one temporary directory put back
WithDirCache(c, dir, view) ==
  [q \in DOMAIN c \cup {<<k[1], <<dir, k[2]>>>> : k \in DOMAIN view} |->
     IF q[2][1] = dir THEN view[<<q[1], q[2][2]>>] ELSE c[q]]

\* _load_data(output_dir) of the wizard.  [status, data, cache]
_load_data(files, view) ==
  IF parsed_data.present
  THEN [status |-> "ok", data |-> parsed_data.data, cache |-> view]
  ELSE LoadReportData(files, view)

\* the report kept in the session, or a new one.  [out, cache]
SessionReport(files, view, project_name, timestamp) ==
  IF session.html_report.present
  THEN [out |-> Ok(session.html_report.doc), cache |-> view]
  ELSE generate_html_report(files, view, project_name, timestamp)

\* render_dashboard, run at time timestamp
RenderDashboard(click, section, choice, timestamp) ==
  /\ session.state = "dashboard"
  /\ CanClick(click)
  /\ LET Header == W("header", <<"P", "H", "I", " ", "R", "e", "v", "i", "e", "w", " ",
        "-", " ">> \o session.project_name)
         Sidebar ==
           W("header", <<"N", "a", "v", "i", "g", "a", "t", "i", "o",
                 "n">>) \o W("radio", section) \o W("divider", <<>>)
           \o W("download_button", <<"p", "h", "i", "_", "r", "e", "p", "o", "r", "t",
                 "_">> \o session.project_name \o <<".", "h", "t", "m", "l">>)
           \o Button(NewScanButton, click)
         Failed(status, view) ==
           /\ ret' = [op |-> "render_dashboard", path |-> "", status |-> status, val |-> <<>>]
           /\ page' = Header \o W("exception", <<>>)
           /\ cache' = WithDirCache(cache, session.output_dir, view)
           /\ UNCHANGED tmp
         WithReport(l, r) ==
           IF r.out.status # "ok"
           THEN /\ Failed(r.out.status, r.cache)
                /\ parsed_data' = [present |-> TRUE, data |-> l.data]
                /\ UNCHANGED session
           ELSE IF click = NewScanButton
           THEN /\ tmp' = RemoveTemp(tmp, session.output_dir)
                /\ parsed_data' = NoData
                /\ session' = [session EXCEPT !.html_report = NoReport, !.state = "startup"]
                /\ ret' = [op |-> "render_dashboard", path |-> "", status |-> "ok",
                           val |-> <<>>]
                /\ page' = Header \o Sidebar \o Rerun
                /\ cache' = WithDirCache(cache, session.output_dir, r.cache)
           ELSE \E s \in {RenderSection(section, l.data, choice)} :
                /\ parsed_data' = [present |-> TRUE, data |-> l.data]
                /\ session' = [session EXCEPT
                                 !.html_report = [present |-> TRUE, doc |-> r.out.val]]
                /\ ret' = [op |-> "render_dashboard", path |-> "", status |-> s.status,
                           val |-> <<>>]
                /\ page' = Header \o Sidebar
                           \o (IF s.status = "ok" THEN s.val ELSE W("exception", <<>>))
                /\ cache' = WithDirCache(cache, session.output_dir, r.cache)
                /\ UNCHANGED tmp
         Loaded(files, l) ==
           IF l.status # "ok"
           THEN Failed(l.status, l.cache) /\ UNCHANGED <<parsed_data, session>>
           ELSE \E r \in {SessionReport(files, l.cache, session.project_name, timestamp)} :
                  WithReport(l, r)
         OnFiles(files) ==
           \E l \in {_load_data(files, DirCache(cache, session.output_dir))} : Loaded(files, l)
     IN OnFiles(tmp.dirs[session.output_dir].files)
  /\ UNCHANGED <<disk, sniffer, env>>
-----------------------------------------------------------------------------
(* SpecParsers: the parsers called on the files of a directory from which  *)
(* some files are missing                                                  *)

\* how many files may be missing, and how many results the memo may hold
MaxMissing == 2

MaxCached == 1

\* the files the loaders hand to each parser
PathsOf(fn) == {LoadPlan[i].path : i \in {j \in 1..Len(LoadPlan) : LoadPlan[j].fn = fn}}

MissingSets == {m \in SUBSET FileNames : Cardinality(m) <= MaxMissing}

InitParsers ==
  /\ disk \in {Without(SampleDir, m) : m \in MissingSets}
  /\ cache = <<>>
  /\ parsed_data = NoData
  /\ ret = NoCall
  /\ sniffer = NotStarted
  /\ IdleWizard

\* the memo holds at most MaxCached results
MemoRoom(fn, path) == Cardinality(DOMAIN cache \cup {<<fn, path>>}) <= MaxCached

NextParsers ==
  \/ \E path \in PathsOf("parse_standard_elements") :
       MemoRoom("parse_standard_elements", path) /\ ParseStandardElements(path)
  \/ \E path \in PathsOf("parse_private_elements") :
       MemoRoom("parse_private_elements", path) /\ ParsePrivateElements(path)
  \/ \E path \in PathsOf("parse_sequences") :
       MemoRoom("parse_sequences", path) /\ ParseSequences(path)
  \/ \E path \in PathsOf("parse_date_time") :
       MemoRoom("parse_date_time", path) /\ ParseDateTime(path)
  \/ \E path \in PathsOf("parse_simple_list") :
       MemoRoom("parse_simple_list", path) /\ ParseSimpleList(path)
  \/ \E path \in PathsOf("parse_counts") :
       MemoRoom("parse_counts", path) /\ ParseCounts(path)
  \/ \E path \in PathsOf("parse_private_creators") :
       MemoRoom("parse_private_creators", path) /\ ParsePrivateCreators(path)
  \/ \E path \in PathsOf("parse_large_private_elements") :
       MemoRoom("parse_large_private_elements", path) /\ ParseLargePrivateElements(path)

SpecParsers == InitParsers /\ [][NextParsers]_vars

\* the parsers that begin with `if not os.path.exists(filepath): return`
SelfChecking == {"parse_sequences", "parse_simple_list", "parse_counts",
    "parse_private_creators", "parse_large_private_elements"}

\* C1 as stated: every parser called with a path at which no file exists
\* returns its empty container and does not end in an error.
C1_AsStated ==
  (ret.op \in ParserNames /\ ~disk[ret.path].exists)
    => (ret.status = "ok" /\ ret.val = <<>>)

\* C1 amended: called with a path at which no file exists, the five parsers
\* that test os.path.exists themselves return their empty container without
\* error, and parse_standard_elements, parse_private_elements and
\* parse_date_time, which open the file unguarded, end in FileNotFoundError.
C1_MissingFile ==
  (ret.op \in ParserNames /\ ~disk[ret.path].exists)
    => IF ret.op \in SelfChecking
       THEN ret.status = "ok" /\ ret.val = <<>>
       ELSE ret.status = "FileNotFoundError"

\* parse_date_time has been called with a path at which no file exists
C1_Witness ==
  /\ ret.op = "parse_date_time"
  /\ ret.path = "date_time_elements.txt"
  /\ ~disk[ret.path].exists
  /\ ret.status = "FileNotFoundError"

-----------------------------------------------------------------------------
(* SpecStd: parse_standard_elements on files made of a listing block, a    *)
(* blank line and a values block                                           *)

\* how many headers the listing holds at most, and how many lines the values block
MaxListed == 2

MaxValueLines == 4

StdFile == "standard_elements.txt"

\* the header lines the files are made of, each with the tag it names
HeaderPool ==
  { [line |-> <<"(", "0", "0", "0", "8", ",", "0", "0", "6", "0", ")", " ", "C", "S", " ",
        "M", "o", "d", "a", "l", "i", "t", "y", "\n">>, tag |-> <<"0", "0", "0", "8", ",",
        "0", "0", "6", "0">>],
    [line |-> <<"(", "0", "0", "1", "0", ",", "0", "0", "1", "0", ")", " ", "P", "N", " ",
          "P", "a", "t", "i", "e", "n", "t", "N", "a", "m", "e", "\n">>, tag |-> <<"0",
          "0", "1", "0", ",", "0", "0", "1", "0">>],
    [line |-> <<"(", "0", "0", "1", "0", ",", "0", "0", "2", "0", ")", " ", "L", "O", " ",
          "P", "a", "t", "i", "e", "n", "t", "I", "D", "\n">>, tag |-> <<"0", "0", "1",
          "0", ",", "0", "0", "2", "0">>] }

\* the indented lines of the values block, each with the value it carries
ValuePool ==
  { [line |-> <<" ", " ", "M", "R", "\n">>, text |-> <<"M", "R">>],
    [line |-> <<" ", " ", "D", "O", "E", "^", "J", "O", "H", "N", "\n">>, text |-> <<"D",
          "O", "E", "^", "J", "O", "H", "N">>] }

BlankLine == <<"\n">>

HeaderLines == {h.line : h \in HeaderPool}

ValueLines == {v.line : v \in ValuePool}

SeqsUpTo(S, lo, hi) == UNION {[1..n -> S] : n \in lo..hi}

\* title, sentinel, a listing of at least one header, a blank line, a values block
StdFiles ==
  { << <<"S", "t", "a", "n", "d", "a", "r", "d", " ", "E", "l", "e", "m", "e", "n", "t",
        "s", "\n">>, ListOfStandardElements \o <<"\n">> >> \o listing
      \o <<BlankLine>> \o block :
      listing \in SeqsUpTo(HeaderLines, 1, MaxListed),
      block \in SeqsUpTo(HeaderLines \cup ValueLines \cup {BlankLine}, 0, MaxValueLines) }

InitStd ==
  /\ disk \in {[EmptyDir EXCEPT ![StdFile] = File(lines)] : lines \in StdFiles}
  /\ cache = <<>>
  /\ parsed_data = NoData
  /\ ret = NoCall
  /\ sniffer = NotStarted
  /\ IdleWizard

NextStd == ParseStandardElements(StdFile)

SpecStd == InitStd /\ [][NextStd]_vars

\* the tag a header line of the pool names
TagOf(line) == (CHOOSE h \in HeaderPool : h.line = line).tag

\* the value an indented line of the pool carries
TextOf(line) == (CHOOSE v \in ValuePool : v.line = line).text

\* the line that ends the listing: the first blank line of the file
ListingEnd(lines) == CHOOSE b \in 1..Len(lines) :
  lines[b] = BlankLine /\ \A j \in 1..(b - 1) : lines[j] # BlankLine

\* the tags of the headers of the listing block
ListedTags(lines) ==
  {TagOf(lines[j]) : j \in {k \in 1..(ListingEnd(lines) - 1) : lines[k] \in HeaderLines}}

\* the header above line i: the last line of headers before it, 0 when there is none
HeaderAbove(lines, i, headers) ==
  IF \E j \in 1..(i - 1) : lines[j] \in headers
  THEN CHOOSE j \in 1..(i - 1) :
         lines[j] \in headers /\ \A k \in (j + 1)..(i - 1) : lines[k] \notin headers
  ELSE 0

\* the values of the indented lines from the i-th on that stand under a header of tag
RECURSIVE ValuesUnder(_, _, _)
ValuesUnder(lines, tag, i) ==
  IF i > Len(lines) THEN <<>>
  ELSE (IF /\ lines[i] \in ValueLines
           /\ HeaderAbove(lines, i, HeaderLines) # 0
           /\ TagOf(lines[HeaderAbove(lines, i, HeaderLines)]) = tag
        THEN <<TextOf(lines[i])>> ELSE <<>>)
       \o ValuesUnder(lines, tag, i + 1)

\* C2: for a file made of a listing block and a values block, the keys of the
\* catalog parse_standard_elements returns are exactly the tags of the headers
\* of the listing, and the values of each key are exactly the indented lines
\* that stand under a header of that tag: a tag whose header stands only in the
\* values block is no key, and the lines under it are stored under no key.
C2_ListedOnly ==
  (ret.op = "parse_standard_elements" /\ ret.path = StdFile /\ disk[StdFile].lines \in StdFiles)
    => /\ ret.status = "ok"
       /\ {ret.val[i].key : i \in 1..Len(ret.val)} = ListedTags(disk[StdFile].lines)
       /\ \A i \in 1..Len(ret.val) :
            ret.val[i].val.values = ValuesUnder(disk[StdFile].lines, ret.val[i].key, 1)

\* a file was parsed whose values block holds a header of a tag that is not
\* listed with a value under it, behind a listed header with a value under it
C2_Witness ==
  /\ ret.op = "parse_standard_elements" /\ ret.path = StdFile
  /\ disk[StdFile].lines \in StdFiles
  /\ \E i \in 1..Len(disk[StdFile].lines) :
       /\ i > ListingEnd(disk[StdFile].lines) + 2
       /\ disk[StdFile].lines[i] \in ValueLines
       /\ disk[StdFile].lines[i - 1] \in HeaderLines
       /\ TagOf(disk[StdFile].lines[i - 1]) \notin ListedTags(disk[StdFile].lines)
  /\ \E k \in 1..Len(ret.val) : ret.val[k].val.values # <<>>

-----------------------------------------------------------------------------
(* SpecLoad: the loaders on a directory from which any of the ten files    *)
(* may be missing                                                          *)

ProjectNames == {<<>>, <<"D", "e", "m", "o">>}

Timestamps == {<<"2", "0", "2", "4", "-", "0", "1", "-", "0", "1", " ", "0", "0", ":", "0",
      "0">>}

InitLoad ==
  /\ disk \in {Without(SampleDir, m) : m \in SUBSET FileNames}
  /\ cache = <<>>
  /\ parsed_data = NoData
  /\ ret = NoCall
  /\ sniffer = NotStarted
  /\ IdleWizard

NextLoad ==
  \/ LoadData
  \/ \E project_name \in ProjectNames, timestamp \in Timestamps :
       GenerateHtmlReport(project_name, timestamp)

SpecLoad == InitLoad /\ [][NextLoad]_vars

\* the structures loaded when all ten files are present
FullData == LoadReportData(SampleDir, <<>>).data

\* the structure expected under each name: empty when its file is missing,
\* else the one loaded from the full directory
ExpectedStructure(i) ==
  IF disk[LoadPlan[i].path].exists THEN FullData[LoadPlan[i].name] ELSE <<>>

ExpectedStructures ==
  [n \in {LoadPlan[i].name : i \in 1..Len(LoadPlan)} |->
     ExpectedStructure(CHOOSE i \in 1..Len(LoadPlan) : LoadPlan[i].name = n)]

\* the two figures derived from the structures
ExpectedData ==
  ("total_files" :> (IF disk["counts.txt"].exists THEN FullData["total_files"] ELSE 0))
  @@ ("modalities" :> (IF disk[StdFile].exists THEN FullData["modalities"] ELSE <<>>))
  @@ ExpectedStructures

\* C3: whichever of the ten files are missing, _load_data and
\* generate_html_report complete without error; _load_data returns, and the
\* document of generate_html_report is built from, the empty structure for
\* each missing file and for each present file the structure loaded when all
\* files are present.
C3_MissingFilesLoadEmpty ==
  /\ ret.op = "_load_data" =>
       /\ ret.status = "ok"
       /\ \A i \in 1..Len(LoadPlan) : ret.val[LoadPlan[i].name] = ExpectedStructure(i)
  /\ ret.op = "generate_html_report" =>
       /\ ret.status = "ok"
       /\ \E project_name \in ProjectNames, timestamp \in Timestamps :
            ret.val = ReportDocument(ExpectedData, NoSummary, project_name, timestamp).val

\* _load_data has returned for a directory without standard_elements.txt and
\* counts.txt that holds sop_classes.txt
C3_Witness ==
  /\ ret.op = "_load_data" /\ ret.status = "ok"
  /\ ~disk[StdFile].exists /\ ~disk["counts.txt"].exists
  /\ disk["sop_classes.txt"].exists
  /\ ret.val["sop_classes"] # <<>> /\ ret.val["std_elements"] = <<>>

-----------------------------------------------------------------------------
(* SpecDateTime: parse_date_time on files in which headers repeat          *)

\* how many lines follow the title line
MaxDtLines == 5

DtFile == "date_time_elements.txt"

\* the header lines, each with the composite key f"({tag}) {vr} {keyword}" it gives
DtHeaderPool ==
  { [line |-> <<"(", "0", "0", "0", "8", ",", "0", "0", "2", "0", ")", " ", " ", "D", "A",
        " ", " ", " ", "S", "t", "u", "d", "y", "D", "a", "t", "e", "\n">>, key |-> <<"(",
        "0", "0", "0", "8", ",", "0", "0", "2", "0", ")", " ", "D", "A", " ", "S", "t",
        "u", "d", "y", "D", "a", "t", "e">>],
    [line |-> <<"(", "0", "0", "0", "8", ",", "0", "0", "3", "0", ")", " ", "T", "M", " ",
          "S", "t", "u", "d", "y", "T", "i", "m", "e", "\n">>, key |-> <<"(", "0", "0",
          "0", "8", ",", "0", "0", "3", "0", ")", " ", "T", "M", " ", "S", "t", "u", "d",
          "y", "T", "i", "m", "e">>] }

DtValuePool ==
  { [line |-> <<" ", " ", "2", "0", "2", "0", "0", "1", "0", "1", "\n">>, text |-> <<"2",
        "0", "2", "0", "0", "1", "0", "1">>],
    [line |-> <<" ", " ", "1", "2", "0", "0", "\n">>, text |-> <<"1", "2", "0", "0">>] }

DtHeaderLines == {h.line : h \in DtHeaderPool}

DtValueLines == {v.line : v \in DtValuePool}

DtFiles ==
  { <<DateTimeElementsLabel \o <<"\n">>>> \o body :
      body \in SeqsUpTo(DtHeaderLines \cup DtValueLines \cup {BlankLine}, 0, MaxDtLines) }

InitDateTime ==
  /\ disk \in {[EmptyDir EXCEPT ![DtFile] = File(lines)] : lines \in DtFiles}
  /\ cache = <<>>
  /\ parsed_data = NoData
  /\ ret = NoCall
  /\ sniffer = NotStarted
  /\ IdleWizard

NextDateTime == ParseDateTime(DtFile)

SpecDateTime == InitDateTime /\ [][NextDateTime]_vars

\* the lines at which header line h stands
Occurrences(lines, h) == {j \in 1..Len(lines) : lines[j] = h}

LastOf(S) == CHOOSE j \in S : \A k \in S : k <= j

\* the values of the indented lines from the i-th on whose header above is line j
RECURSIVE DtValuesUnder(_, _, _)
DtValuesUnder(lines, j, i) ==
  IF i > Len(lines) THEN <<>>
  ELSE (IF lines[i] \in DtValueLines /\ HeaderAbove(lines, i, DtHeaderLines) = j
        THEN <<(CHOOSE v \in DtValuePool : v.line = lines[i]).text>> ELSE <<>>)
       \o DtValuesUnder(lines, j, i + 1)

\* C4: when a composite key stands as a header more than once in a date/time
\* file, the list parse_date_time returns for it holds exactly the indented
\* values under its last occurrence, in file order.
C4_LastOccurrenceOnly ==
  (ret.op = "parse_date_time" /\ ret.path = DtFile /\ disk[DtFile].lines \in DtFiles)
    => /\ ret.status = "ok"
       /\ \A h \in DtHeaderPool :
            Cardinality(Occurrences(disk[DtFile].lines, h.line)) >= 2
              => /\ HasKey(ret.val, h.key)
                 /\ DictGet(ret.val, h.key)
                      = DtValuesUnder(disk[DtFile].lines,
                                      LastOf(Occurrences(disk[DtFile].lines, h.line)), 1)

\* a file was parsed in which a header stands twice, with a value under its
\* first occurrence and another value under its second
C4_Witness ==
  /\ ret.op = "parse_date_time" /\ ret.path = DtFile
  /\ \E h \in DtHeaderPool :
       /\ Cardinality(Occurrences(disk[DtFile].lines, h.line)) = 2
       /\ \E j \in Occurrences(disk[DtFile].lines, h.line) :
            /\ j + 3 <= Len(disk[DtFile].lines)
            /\ disk[DtFile].lines[j + 1] = <<" ", " ", "2", "0", "2", "0", "0", "1", "0",
                  "1", "\n">>
            /\ disk[DtFile].lines[j + 2] = h.line
            /\ disk[DtFile].lines[j + 3] = <<" ", " ", "1", "2", "0", "0", "\n">>
       /\ HasKey(ret.val, h.key)
       /\ DictGet(ret.val, h.key) = <<<<"1", "2", "0", "0">>>>

-----------------------------------------------------------------------------
(* SpecPrivate: parse_private_elements on files whose blank lines stand    *)
(* anywhere                                                                *)

\* how many lines a private-elements file holds at most
MaxPrivLines == 5

PrivFile == "private_elements.txt"

PrivLinePool ==
  { PrivateElementsLabel \o <<"\n">>, ListOfElementKeysLabel \o <<"\n">>, BlankLine,
    <<"S", "I", "E", "M", "E", "N", "S", " ", "(", "0", "0", "1", "9", ",", "1", "0", "0",
      "8", ")", "\n">>, <<" ", " ", "4", "\n">> }

PrivFiles == SeqsUpTo(PrivLinePool, 0, MaxPrivLines)

InitPrivate ==
  /\ disk \in {[EmptyDir EXCEPT ![PrivFile] = File(lines)] : lines \in PrivFiles}
  /\ cache = <<>>
  /\ parsed_data = NoData
  /\ ret = NoCall
  /\ sniffer = NotStarted
  /\ IdleWizard

NextPrivate == ParsePrivateElements(PrivFile)

SpecPrivate == InitPrivate /\ [][NextPrivate]_vars

\* the positions, counted from 1, of the blank lines of the file
BlankPositions(lines) == {j \in 1..Len(lines) : lines[j] = BlankLine}

\* fewer than 3 lines precede the first blank line
FirstBlankIsEarly(lines) ==
  \E j \in BlankPositions(lines) : j - 1 < 3 /\ \A k \in BlankPositions(lines) : j <= k

\* C5 as stated: when fewer than 3 lines precede the first blank line of the
\* file, parse_private_elements returns the empty mapping, whatever follows.
C5_AsStated ==
  (ret.op = "parse_private_elements" /\ ret.path = PrivFile
     /\ FirstBlankIsEarly(disk[PrivFile].lines))
    => (ret.status = "ok" /\ ret.val = <<>>)

\* C5 amended: when fewer than 3 lines precede every blank line of the file
\* (no blank line stands at index 3 or later), parse_private_elements returns
\* the empty mapping, whatever else the file holds.
C5_NoLateBlank ==
  (ret.op = "parse_private_elements" /\ ret.path = PrivFile
     /\ \A j \in BlankPositions(disk[PrivFile].lines) : j - 1 < 3)
    => (ret.status = "ok" /\ ret.val = <<>>)

\* a file was parsed that holds a key and a value behind an early blank line
\* and no later blank line
C5_Witness ==
  /\ ret.op = "parse_private_elements" /\ ret.path = PrivFile
  /\ disk[PrivFile].lines
       = << PrivateElementsLabel \o <<"\n">>, BlankLine, <<"S", "I", "E", "M", "E", "N",
             "S", " ", "(", "0", "0", "1", "9", ",", "1", "0", "0", "8", ")",
             "\n">>, <<" ", " ", "4", "\n">> >>
  /\ ret.status = "ok" /\ ret.val = <<>>

-----------------------------------------------------------------------------
(* SpecHashes: generate_html_report on directories that hold only          *)
(* large_private_elements.txt, with more rows than the table shows         *)

\* how many hash rows the file holds at most
MaxHashRows == 11

LargeFile == "large_private_elements.txt"

\* the hash of the i-th row of a file
HashNames == <<"a", "b", "c", "d", "e", "f", "g", "h", "i", "j", "k", "l", "m">>

\* the counts of the rows, each with its decimal text
CountPool == { [n |-> 3, text |-> <<"3">>], [n |-> 12, text |-> <<"1", "2">>] }

HashLine(i, c) ==
  HashPrefix \o <<HashNames[i]>> \o CountSeparator \o c.text \o <<"\n">>

HashFiles ==
  { [i \in DOMAIN f |-> HashLine(i, f[i])] : f \in SeqsUpTo(CountPool, 0, MaxHashRows) }

ReportStamp == <<"2", "0", "2", "4", "-", "0", "1", "-", "0", "1", " ", "0", "0", ":", "0",
      "0">>

InitHashes ==
  /\ disk \in {[EmptyDir EXCEPT ![LargeFile] = File(lines)] : lines \in HashFiles}
  /\ cache = <<>>
  /\ parsed_data = NoData
  /\ ret = NoCall
  /\ sniffer = NotStarted
  /\ IdleWizard

NextHashes == GenerateHtmlReport(<<>>, ReportStamp)

SpecHashes == InitHashes /\ [][NextHashes]_vars

\* the count of the i-th row of the file
CountAt(lines, i) == CHOOSE c \in CountPool : lines[i] = HashLine(i, c)

\* the place of row i among the rows ordered by count, highest first, rows of
\* equal count in file order
Rank(lines, i) ==
  1 + Cardinality({j \in 1..Len(lines) :
                     \/ CountAt(lines, j).n > CountAt(lines, i).n
                     \/ CountAt(lines, j).n = CountAt(lines, i).n /\ j < i})

\* where the rows of the hash table start in a document
RowPositions(doc) ==
  {i \in 1..(Len(doc) - 4) :
     doc[i] = Lit("<tr><td><code>")[1] /\ doc[i + 2] = Lit("</code></td><td>")[1]}

\* the k-th smallest member of a set of numbers
Nth(S, k) == CHOOSE i \in S : Cardinality({j \in S : j < i}) = k - 1

\* the rows of the hash table of a document, in document order: <<hash, count>>
ShownRows(doc) ==
  [k \in 1..Cardinality(RowPositions(doc)) |->
     <<doc[Nth(RowPositions(doc), k) + 1].d, doc[Nth(RowPositions(doc), k) + 3].d>>]

\* the decimal text of the numbers the claims name
Decimal == [n \in 0..13 |-> << <<"0">>, <<"1">>, <<"2">>, <<"3">>, <<"4">>, <<"5">>, <<"6">>, <<"7">>,
                               <<"8">>, <<"9">>, <<"1", "0">>, <<"1", "1">>, <<"1",
                                 "2">>, <<"1", "3">> >>[n + 1]]

\* where the note under the table starts in a document
NotePositions(doc) == {i \in 1..Len(doc) : doc[i] = Lit("<p><em>Showing top ")[1]}

\* the table holds the min(10, n) rows of highest count, by count descending,
\* rows of equal count in file order
TopTenShown(lines, doc) ==
  /\ Len(ShownRows(doc)) = (IF Len(lines) < 10 THEN Len(lines) ELSE 10)
  /\ \A i \in 1..Len(lines) :
       Rank(lines, i) <= 10
         => ShownRows(doc)[Rank(lines, i)] = << <<HashNames[i]>>, CountAt(lines, i).text >>

\* C6 as stated: the table holds the top min(10, n) rows, and when n > 10 the
\* document carries a note that states the number n - 10 of hashes left out.
C6_AsStated ==
  (ret.op = "generate_html_report" /\ disk[LargeFile].lines \in HashFiles)
    => /\ ret.status = "ok"
       /\ TopTenShown(disk[LargeFile].lines, ret.val)
       /\ Len(disk[LargeFile].lines) > 10
            => \E i \in NotePositions(ret.val) :
                 \E k \in (i + 1)..(i + 3) :
                   ret.val[k].d = Decimal[Len(disk[LargeFile].lines) - 10]

\* C6 amended: the table holds the min(10, n) rows of highest count, ordered
\* by count descending with rows of equal count in parser order; when n > 10
\* the document carries one note, which states the number of rows shown (10)
\* and the total n, and when n <= 10 it carries none.
C6_TopTenAndNote ==
  (ret.op = "generate_html_report" /\ disk[LargeFile].lines \in HashFiles)
    => /\ ret.status = "ok"
       /\ TopTenShown(disk[LargeFile].lines, ret.val)
       /\ IF Len(disk[LargeFile].lines) > 10
          THEN /\ Cardinality(NotePositions(ret.val)) = 1
               /\ \A i \in NotePositions(ret.val) :
                    /\ ret.val[i + 1] = Text(Decimal[10])[1]
                    /\ ret.val[i + 2] = Lit(" of ")[1]
                    /\ ret.val[i + 3] = Text(Decimal[Len(disk[LargeFile].lines)])[1]
          ELSE NotePositions(ret.val) = {}

\* a report was generated for eleven rows of which a row of the higher count
\* stands behind ten rows of the lower count
C6_Witness ==
  /\ ret.op = "generate_html_report" /\ ret.status = "ok"
  /\ disk[LargeFile].lines \in HashFiles
  /\ Len(disk[LargeFile].lines) = 11
  /\ \A i \in 1..10 : CountAt(disk[LargeFile].lines, i).n = 3
  /\ CountAt(disk[LargeFile].lines, 11).n = 12
  /\ ShownRows(ret.val)[1] = << <<"k">>, <<"1", "2">> >>

-----------------------------------------------------------------------------
(* SpecEscape: generate_html_report on directories whose files carry       *)
(* markup characters in every field that reaches the document              *)

\* the texts put into the fields, each with what html.escape makes of it
PayloadPool ==
  { [raw |-> <<"<", "s", "c", "r", "i", "p", "t", ">">>, escaped |-> <<"&", "l", "t", ";",
        "s", "c", "r", "i", "p", "t", "&", "g", "t", ";">>],
    [raw |-> <<"a", "&", "b", "\"", "c", "'", "d">>, escaped |-> <<"a", "&", "a", "m", "p",
          ";", "b", "&", "q", "u", "o", "t", ";", "c", "&", "#", "x", "2", "7", ";",
          "d">>],
    [raw |-> <<"p", "l", "a", "i", "n">>, escaped |-> <<"p", "l", "a", "i", "n">>] }

Payloads == {p.raw : p \in PayloadPool}

\* the groups of fields that take their text together
Slots == {"std", "priv", "counts", "lists"}

\* the directory in which the fields of slot s hold the text f[s]
EscapeDir(f) ==
  [n \in DirNames |->
     CASE n = "standard_elements.txt" ->
            File(<< <<"S", "t", "a", "n", "d", "a", "r", "d", " ", "E", "l", "e", "m", "e",
                  "n", "t", "s", "\n">>, ListOfStandardElements \o <<"\n">>,
                    <<"(", "0", "0", "0", "8", ",", "0", "0", "6", "0", ")", " ", "C", "S",
                      " ", "M", "o", "d", "a", "l", "i", "t", "y", "\n">>,
                    <<"(", "0", "0", "1", "0", ",", "0", "0", "1", "0", ")", " ", "P", "N",
                      " ">> \o f["std"] \o <<"\n">>,
                    BlankLine,
                    <<"(", "0", "0", "0", "8", ",", "0", "0", "6", "0", ")", " ", "C", "S",
                      " ", "M", "o", "d", "a", "l", "i", "t", "y",
                      "\n">>, Indent \o f["std"] \o <<"\n">>,
                    <<"(", "0", "0", "1", "0", ",", "0", "0", "1", "0", ")", " ", "P", "N",
                      " ">> \o f["std"] \o <<"\n">>, Indent \o f["std"] \o <<"\n">> >>)
       [] n = "date_time_elements.txt" ->
            File(<< DateTimeElementsLabel \o <<"\n">>,
                    <<"(", "0", "0", "0", "8", ",", "0", "0", "2", "0", ")", " ", "D", "A",
                      " ">> \o f["std"] \o <<"\n">>, Indent \o f["std"] \o <<"\n">> >>)
       [] n = "private_elements.txt" ->
            File(<< PrivateElementsLabel \o <<"\n">>, ListOfElementKeysLabel \o <<"\n">>,
                    f["priv"] \o <<"\n">>, BlankLine,
                    f["priv"] \o <<"\n">>, Indent \o f["priv"] \o <<"\n">> >>)
       [] n = "standard_sequences.txt" ->
            File(<< StandardSequenceLabel \o <<"\n">>,
                    f["priv"] \o <<"\n">>, Indent \o f["priv"] \o <<"\n">> >>)
       [] n = "private_sequences.txt" ->
            File(<< PrivateSequenceLabel \o <<"\n">>,
                    f["priv"] \o <<"\n">>, Indent \o f["priv"] \o <<"\n">> >>)
       [] n = "counts.txt" ->
            File(<< <<"S", "t", "u", "d", "y", " ", "S", "e", "r", "i", "e", "s", " ", "F",
                  "i", "l", "e", "s", " ", ">", "1", "K", "B", " ", ">", "2", "0", "K",
                  "B", " ", ">", "5", "0", "K", "B", "\n">>,
                    f["counts"] \o <<" ", "1", " ", "1", "0",
                          " ">> \o f["counts"] \o <<" ">> \o f["counts"]
                      \o <<" ">> \o f["counts"] \o <<"\n">> >>)
       [] n = "sop_classes.txt" -> File(<< <<"S", "O", "P", " ", "C", "l", "a", "s", "s",
             "e", "s", "\n">>, f["lists"] \o <<"\n">> >>)
       [] n = "dicom_studies.txt" -> File(<< <<"S", "t", "u", "d", "i", "e", "s",
             "\n">>, f["lists"] \o <<"\n">> >>)
       [] n = "private_creators.txt" ->
            File(<< PrivateCreatorsLabel \o <<"\n">>, f["lists"] \o <<"\t">> \o f["lists"] \o <<"\n">> >>)
       [] n = "large_private_elements.txt" ->
            File(<< HashPrefix \o f["lists"] \o CountSeparator \o <<"3", "\n">> >>)
       [] OTHER -> NoFile]

EscapeDirs == {EscapeDir(f) : f \in [Slots -> Payloads]}

InitEscape ==
  /\ disk \in EscapeDirs
  /\ cache = <<>>
  /\ parsed_data = NoData
  /\ ret = NoCall
  /\ sniffer = NotStarted
  /\ IdleWizard

NextEscape == \E project_name \in Payloads \cup {<<>>} : GenerateHtmlReport(project_name, ReportStamp)

SpecEscape == InitEscape /\ [][NextEscape]_vars

\* what html.escape writes for the five characters it replaces
Entities == { <<"&", "a", "m", "p", ";">>, <<"&", "l", "t", ";">>, <<"&", "g", "t",
      ";">>, <<"&", "q", "u", "o", "t", ";">>, <<"&", "#", "x", "2", "7", ";">> }

\* sub stands in s at position j
OccursAt(sub, s, j) == j + Len(sub) - 1 <= Len(s) /\ SubSeq(s, j, j + Len(sub) - 1) = sub

Occurs(sub, s) == \E j \in 1..Len(s) : OccursAt(sub, s, j)

\* no '<', '>' or quote stands in s, and every '&' of s starts an entity
EscapedOnly(s) ==
  \A j \in 1..Len(s) :
    /\ s[j] \notin {"<", ">", "\"", "'"}
    /\ s[j] = "&" => \E e \in Entities : OccursAt(e, s, j)

\* the texts embedded in a document
EmbeddedTexts(doc) == {doc[i].d : i \in {j \in 1..Len(doc) : doc[j].k = "text"}}

\* C7: in the document generate_html_report builds, every text embedded from
\* report data or from the project name has passed html.escape: none holds a
\* raw '<', '>', '&' or quote, and a field that holds <script> is embedded as
\* &lt;script&gt;.
C7_EmbeddedTextEscaped ==
  (ret.op = "generate_html_report" /\ disk \in EscapeDirs)
    => /\ ret.status = "ok"
       /\ \A s \in EmbeddedTexts(ret.val) : EscapedOnly(s)
       /\ \A p \in PayloadPool :
            (\E n \in FileNames : \E i \in 1..Len(disk[n].lines) :
               Occurs(p.raw, disk[n].lines[i]))
              => \E s \in EmbeddedTexts(ret.val) : Occurs(p.escaped, s)

\* a report was generated for the project <script> from files that hold
\* <script> in their hash and creator fields
C7_Witness ==
  /\ ret.op = "generate_html_report" /\ ret.status = "ok"
  /\ disk \in EscapeDirs
  /\ disk[LargeFile].lines = << HashPrefix \o <<"<", "s", "c", "r", "i", "p", "t",
        ">">> \o CountSeparator \o <<"3", "\n">> >>
  /\ <<"&", "l", "t", ";", "s", "c", "r", "i", "p", "t", "&", "g", "t",
       ";">> \in EmbeddedTexts(ret.val)
  /\ <<"P", "H", "I", " ", "R", "e", "p", "o", "r", "t", " ", EmDash, " ", "&", "l", "t",
       ";", "s", "c", "r", "i", "p", "t", "&", "g", "t", ";">> \in EmbeddedTexts(ret.val)

-----------------------------------------------------------------------------
(* SpecCounts: the loaders on directories that hold only counts.txt, with  *)
(* file counts that are and are not integers                               *)

\* how many rows counts.txt holds at most
MaxCountRows == 3

CountsFile == "counts.txt"

\* the texts of the Files field that int() converts, each with its value
IntegerTexts ==
  { [text |-> <<"1", "0">>, n |-> 10], [text |-> <<"2", "0">>, n |-> 20], [text |-> <<"3",
        "0">>, n |-> 30],
    [text |-> <<"0", "0", "7">>, n |-> 7], [text |-> <<"1", "_", "0", "0",
          "0">>, n |-> 1000] }

\* texts of the Files field that int() rejects
NonIntegerTexts == { <<"x">>, <<"1", ".", "5">>, <<"1", "_", "_", "0">> }

FilesTexts == {t.text : t \in IntegerTexts} \cup NonIntegerTexts

\* the values of the fields named Study, Series, Files, >1KB, >20KB and >50KB
CountsLine(files) == <<"1", ".", "2", ".", "3", " ", "2", " ">> \o files \o <<" ", "1",
      " ", "0", " ", "0", "\n">>

CountsFiles ==
  { << <<"S", "t", "u", "d", "y", " ", "S", "e", "r", "i", "e", "s", " ", "F", "i", "l",
        "e", "s", " ", ">", "1", "K", "B", " ", ">", "2", "0", "K", "B", " ", ">", "5",
        "0", "K", "B", "\n">> >> \o [i \in DOMAIN f |-> CountsLine(f[i])] :
      f \in SeqsUpTo(FilesTexts, 0, MaxCountRows) }

InitCounts ==
  /\ disk \in {[EmptyDir EXCEPT ![CountsFile] = File(lines)] : lines \in CountsFiles}
  /\ cache = <<>>
  /\ parsed_data = NoData
  /\ ret = NoCall
  /\ sniffer = NotStarted
  /\ IdleWizard

NextCounts ==
  \/ \E section \in Sections : Main(section, 1)
  \/ LoadData
  \/ GenerateHtmlReport(<<>>, ReportStamp)

SpecCounts == InitCounts /\ [][NextCounts]_vars

\* the Files field of the row at line i of counts.txt
FilesAt(lines, i) == CHOOSE t \in FilesTexts : lines[i] = CountsLine(t)

\* every row of the file has a Files field that is an integer
AllInteger(lines) == \A i \in 2..Len(lines) : FilesAt(lines, i) \notin NonIntegerTexts

\* the sum of the Files fields of the rows from line i on
RECURSIVE SumOfFiles(_, _)
SumOfFiles(lines, i) ==
  IF i > Len(lines) THEN 0
  ELSE (CHOOSE t \in IntegerTexts : t.text = FilesAt(lines, i)).n + SumOfFiles(lines, i + 1)

Loads == {"main", "_load_data", "generate_html_report"}

\* the text behind "DICOM files parsed:" in the header of a document
HeaderTotals(doc) ==
  {doc[i + 1].d : i \in {j \in 1..(Len(doc) - 1) :
                          doc[j] = Lit("<span><strong>DICOM files parsed:</strong> ")[1]}}

\* C8: the total file count that main, _load_data and generate_html_report
\* compute is the sum of the Files fields of the rows of counts.txt, each
\* converted with int(), and 0 when the file has no rows.
C8_TotalIsSum ==
  (ret.op \in Loads /\ disk[CountsFile].lines \in CountsFiles
     /\ AllInteger(disk[CountsFile].lines))
    => /\ ret.status = "ok"
       /\ ret.op \in {"main", "_load_data"}
            => ret.val["total_files"] = SumOfFiles(disk[CountsFile].lines, 2)
       /\ ret.op = "generate_html_report"
            => HeaderTotals(ret.val) = {FormatComma(SumOfFiles(disk[CountsFile].lines, 2))}

\* main has loaded a counts.txt whose rows hold 10, 20 and 30 and found 60
C8_Witness ==
  /\ ret.op = "main" /\ ret.status = "ok"
  /\ disk[CountsFile].lines
       = << <<"S", "t", "u", "d", "y", " ", "S", "e", "r", "i", "e", "s", " ", "F", "i",
             "l", "e", "s", " ", ">", "1", "K", "B", " ", ">", "2", "0", "K", "B", " ",
             ">", "5", "0", "K", "B", "\n">>,
            CountsLine(<<"1", "0">>), CountsLine(<<"2", "0">>), CountsLine(<<"3",
                  "0">>) >>
  /\ ret.val["total_files"] = 60

\* C9: when a row of counts.txt has a Files field that int() rejects, main,
\* _load_data and generate_html_report end in ValueError: they return no data
\* and no document, and _load_data keeps nothing in the session.
C9_NonIntegerFails ==
  (disk[CountsFile].lines \in CountsFiles /\ ~AllInteger(disk[CountsFile].lines))
    => /\ ret.op \in Loads => (ret.status = "ValueError" /\ ret.val = <<>>)
       /\ ~parsed_data.present

\* _load_data has failed on a counts.txt whose second row holds 1.5
C9_Witness ==
  /\ ret.op = "_load_data" /\ ret.status = "ValueError"
  /\ disk[CountsFile].lines
       = << <<"S", "t", "u", "d", "y", " ", "S", "e", "r", "i", "e", "s", " ", "F", "i",
             "l", "e", "s", " ", ">", "1", "K", "B", " ", ">", "2", "0", "K", "B", " ",
             ">", "5", "0", "K", "B", "\n">>, CountsLine(<<"1", "0">>), CountsLine(<<"1",
             ".", "5">>) >>

-----------------------------------------------------------------------------
(* SpecLarge: parse_large_private_elements on files that hold lines of the *)
(* grammar `Hash: <text>, count: <integer>` and lines that are not         *)

\* how many lines large_private_elements.txt holds at most
MaxLargeLines == 3

\* the lines of the grammar, each with the row it stands for
MatchingLines ==
  { [line |-> <<"H", "a", "s", "h", ":", " ", "9", "f", "8", "6", ",", " ", "c", "o", "u",
        "n", "t", ":", " ", "3", "\n">>, row |-> [Hash |-> <<"9", "f", "8",
        "6">>, Count |-> 3]],
    [line |-> <<"H", "a", "s", "h", ":", " ", "2", "c", "2", "6", ",", " ", "c", "o", "u",
          "n", "t", ":", " ", "1", "2", "\n">>, row |-> [Hash |-> <<"2", "c", "2",
          "6">>, Count |-> 12]] }

\* lines outside the grammar: no prefix, no separator, no integer, blank
OtherLines ==
  { <<"9", "f", "8", "6", " ", "3", "\n">>, <<"H", "a", "s", "h", ":", " ", "9", "f", "8",
      "6", "\n">>, <<"H", "a", "s", "h", ":", " ", "9", "f", "8", "6", ",", " ", "c", "o",
      "u", "n", "t", ":", " ", "m", "a", "n", "y", "\n">>, BlankLine }

LargeFiles == SeqsUpTo({m.line : m \in MatchingLines} \cup OtherLines, 0, MaxLargeLines)

InitLarge ==
  /\ disk \in {[EmptyDir EXCEPT ![LargeFile] = File(lines)] : lines \in LargeFiles}
  /\ cache = <<>>
  /\ parsed_data = NoData
  /\ ret = NoCall
  /\ sniffer = NotStarted
  /\ IdleWizard

NextLarge == ParseLargePrivateElements(LargeFile)

SpecLarge == InitLarge /\ [][NextLarge]_vars

\* the rows of the lines of the grammar from line i on, in file order
RECURSIVE RowsOfMatching(_, _)
RowsOfMatching(lines, i) ==
  IF i > Len(lines) THEN <<>>
  ELSE (IF \E m \in MatchingLines : m.line = lines[i]
        THEN <<(CHOOSE m \in MatchingLines : m.line = lines[i]).row>> ELSE <<>>)
       \o RowsOfMatching(lines, i + 1)

\* C10: parse_large_private_elements ignores every line outside the grammar
\* `Hash: <text>, count: <integer>`, a line with the prefix, the separator and
\* no integer behind it included: it ends without error and returns one row
\* for each line of the grammar, in file order.
C10_NonMatchingIgnored ==
  (ret.op = "parse_large_private_elements" /\ ret.path = LargeFile
     /\ disk[LargeFile].lines \in LargeFiles)
    => /\ ret.status = "ok"
       /\ ret.val = RowsOfMatching(disk[LargeFile].lines, 1)
-----------------------------------------------------------------------------
(* SpecRender: generate_html_report run again and again while the scanner  *)
(* rewrites files of the directory                                         *)

\* the external scanner started by run_tag_sniffer writes, rewrites or leaves
\* out a file of the output directory
ScannerWrites(path, file) ==
  /\ disk[path] # file
  /\ disk' = [disk EXCEPT ![path] = file]
  /\ UNCHANGED <<cache, parsed_data, ret, sniffer, page, wizard>>

RescannedSopClasses == << <<"S", "O", "P", " ", "C", "l", "a", "s", "s", "e", "s",
      "\n">>, <<"1", ".", "2", ".", "8", "4", "0", ".", "1", "0", "0", "0", "8", ".", "5",
      ".", "1", ".", "4", ".", "1", ".", "1", ".", "2", "\n">> >>

RescannedStandardElements ==
  << <<"S", "t", "a", "n", "d", "a", "r", "d", " ", "E", "l", "e", "m", "e", "n", "t", "s",
       "\n">>,
     <<"L", "i", "s", "t", " ", "o", "f", " ", "S", "t", "a", "n", "d", "a", "r", "d", " ",
       "E", "l", "e", "m", "e", "n", "t", "s", "\n">>,
     <<"(", "0", "0", "0", "8", ",", "0", "0", "6", "0", ")", " ", "C", "S", " ", "M", "o",
       "d", "a", "l", "i", "t", "y", "\n">>,
     <<"\n">>,
     <<"(", "0", "0", "0", "8", ",", "0", "0", "6", "0", ")", " ", "C", "S", " ", "M", "o",
       "d", "a", "l", "i", "t", "y", "\n">>,
     <<" ", " ", "C", "T", "\n">> >>

\* the files the scanner rewrites, and the contents it leaves under each
RescannedFiles == {"sop_classes.txt", StdFile}

Versions(path) ==
  IF path = StdFile
  THEN {NoFile, File(SampleStandardElements), File(RescannedStandardElements)}
  ELSE {NoFile, File(SampleSopClasses), File(RescannedSopClasses)}

InitRender ==
  /\ disk \in {[SampleDir EXCEPT !["sop_classes.txt"] = s, ![StdFile] = e] :
                 s \in Versions("sop_classes.txt"), e \in Versions(StdFile)}
  /\ cache = <<>>
  /\ parsed_data = NoData
  /\ ret = NoCall
  /\ sniffer = NotStarted
  /\ IdleWizard

NextRender ==
  \/ \E project_name \in ProjectNames : GenerateHtmlReport(project_name, ReportStamp)
  \/ \E path \in RescannedFiles : \E file \in Versions(path) : ScannerWrites(path, file)

SpecRender == InitRender /\ [][NextRender]_vars

\* the structure a file of the directory holds now, read without the memo
DirectStructure(d, e) ==
  IF SkipsCall(d, e) THEN <<>> ELSE ParserBody(e.fn, d[e.path]).val

\* the report data the directory holds now
DirectData(d) ==
  LET Derived(s) ==
        ("total_files" :> TotalFiles(s["counts"]).val)
        @@ ("modalities" :> Modalities(s["std_elements"])) @@ s
      Entry(n) == LoadPlan[CHOOSE i \in 1..Len(LoadPlan) : LoadPlan[i].name = n]
  IN Derived([n \in {LoadPlan[i].name : i \in 1..Len(LoadPlan)} |->
                DirectStructure(d, Entry(n))])

\* the document of the directory's content, the label and the timestamp
DirectDocument(d, project_name, timestamp) ==
  ReportDocument(DirectData(d), parse_scan_summary(d[SummaryFile]), project_name,
                 timestamp)

\* a step in which generate_html_report ran
ReportRun ==
  /\ ret'.op = "generate_html_report"
  /\ disk' = disk
  /\ (ret' # ret \/ cache' # cache)

\* every memoized structure is the one its file parses to now
MemoAgrees(d, c) ==
  \A k \in DOMAIN c : ParserBody(k[1], d[k[2]]) = Ok(c[k])

\* C11 as stated: the document of a run is determined by the directory's
\* content, the project label and the timestamp alone, so that any two runs on
\* the same content with the same label give the same document.
C11_AsStated ==
  [][ReportRun =>
       \E project_name \in ProjectNames :
          /\ ret'.status = "ok"
          /\ ret'.val = DirectDocument(disk, project_name, ReportStamp).val]_vars

\* C11: generate_html_report is deterministic in the directory's content, the
\* project label, the timestamp and the memo of the parsers: a run that starts
\* with a memo whose every entry agrees with the file it was computed from (an
\* empty memo in particular) returns the document of the directory's content,
\* so two such runs on the same content and label return the same document.
C11_DeterministicGivenMemo ==
  [][(ReportRun /\ MemoAgrees(disk, cache)) =>
       \E project_name \in ProjectNames :
          /\ ret'.status = "ok"
          /\ ret'.val = DirectDocument(disk, project_name, ReportStamp).val]_vars

\* a run with the label Demo has returned the document of the rescanned
\* directory, and the memo it leaves agrees with the files
C11_Witness ==
  /\ ret.op = "generate_html_report" /\ ret.status = "ok"
  /\ cache # <<>> /\ MemoAgrees(disk, cache)
  /\ disk["sop_classes.txt"] = File(RescannedSopClasses)
  /\ ret.val = DirectDocument(disk, <<"D", "e", "m", "o">>, ReportStamp).val
-----------------------------------------------------------------------------
(* SpecMemo: three of the decorated parsers called again and again while   *)
(* the scanner rewrites their files                                        *)

RescannedLargePrivate == << <<"H", "a", "s", "h", ":", " ", "9", "f", "8", "6", "d", "0",
      ",", " ", "c", "o", "u", "n", "t", ":", " ", "4", "\n">> >>

BrokenLargePrivate == << <<"H", "a", "s", "h", ":", " ", "9", "f", "8", "6", "d", "0", ",",
      " ", "c", "o", "u", "n", "t", ":", " ", "m", "a", "n", "y", "\n">> >>

MemoFiles == {"sop_classes.txt", StdFile, LargeFile}

MemoVersions(path) ==
  IF path = LargeFile
  THEN {NoFile, File(SampleLargePrivate), File(RescannedLargePrivate),
        File(BrokenLargePrivate)}
  ELSE Versions(path)

InitMemo ==
  /\ disk \in {[SampleDir EXCEPT !["sop_classes.txt"] = s, ![StdFile] = e, ![LargeFile] = l] :
                 s \in MemoVersions("sop_classes.txt"), e \in MemoVersions(StdFile),
                 l \in MemoVersions(LargeFile)}
  /\ cache = <<>>
  /\ parsed_data = NoData
  /\ ret = NoCall
  /\ sniffer = NotStarted
  /\ IdleWizard

NextMemo ==
  \/ ParseSimpleList("sop_classes.txt")
  \/ ParseStandardElements(StdFile)
  \/ ParseLargePrivateElements(LargeFile)
  \/ \E path \in MemoFiles : \E file \in MemoVersions(path) : ScannerWrites(path, file)

SpecMemo == InitMemo /\ [][NextMemo]_vars

\* a step in which the decorated parser fn was called on path
ParserCall(fn, path) ==
  /\ ret'.op = fn /\ ret'.path = path
  /\ disk' = disk
  /\ \/ ret.op # fn \/ ret.path # path \/ ret'.status # ret.status
     \/ ret'.val # ret.val \/ cache' # cache

\* C12 as stated: the result of a call depends only on the path and on what
\* the file held at the first call for that path, so an invocation that
\* follows an invocation of the same parser on the same path ends as that one
\* did, whatever happened to the file in between.
C12_AsStated ==
  [][(ret.op \in ParserNames /\ ParserCall(ret.op, ret.path)) =>
       (ret'.status = ret.status /\ ret'.val = ret.val)]_vars

\* C12: behind the memo, a call on a path for which an earlier call returned
\* a structure returns that structure, without error and without reading the
\* file, whatever the file holds now and whether it still exists; the memo
\* never changes or drops an entry.  A call that ends in an error memoizes
\* nothing: a call on a path without an entry reads the file as it is now and
\* memoizes the structure only when it returns one.
C12_MemoizedStructureReturned ==
  [][/\ \A k \in DOMAIN cache : k \in DOMAIN cache' /\ cache'[k] = cache[k]
     /\ \A fn \in ParserNames, path \in FileNames :
          ParserCall(fn, path) =>
            IF <<fn, path>> \in DOMAIN cache
            THEN /\ ret'.status = "ok"
                 /\ ret'.val = cache[<<fn, path>>]
                 /\ cache' = cache
            ELSE /\ ret'.status = ParserBody(fn, disk[path]).status
                 /\ ret'.val = ParserBody(fn, disk[path]).val
                 /\ DOMAIN cache' = IF ret'.status = "ok"
                                    THEN DOMAIN cache \cup {<<fn, path>>}
                                    ELSE DOMAIN cache
                 /\ ret'.status = "ok" => cache'[<<fn, path>>] = ret'.val]_vars

\* parse_simple_list has returned the memoized list of sop_classes.txt, which
\* is not the list the rewritten file holds
C12_Witness ==
  /\ ret.op = "parse_simple_list" /\ ret.path = "sop_classes.txt" /\ ret.status = "ok"
  /\ <<"parse_simple_list", "sop_classes.txt">> \in DOMAIN cache
  /\ ret.val = cache[<<"parse_simple_list", "sop_classes.txt">>]
  /\ disk["sop_classes.txt"].exists
  /\ parse_simple_list(disk["sop_classes.txt"]) # Ok(ret.val)
-----------------------------------------------------------------------------
(* SpecStdLines: parse_standard_elements on every file of a few lines      *)

MaxStdLines == 5

SentinelLine == ListOfStandardElements \o <<"\n">>

\* header lines that match the grammar, each with its tag; the second has a
\* tag that is no uppercase hexadecimal number
MatchingPool ==
  { [line |-> <<"(", "0", "0", "0", "8", ",", "0", "0", "6", "0", ")", " ", "C", "S", " ",
        "M", "o", "d", "a", "l", "i", "t", "y", "\n">>, tag |-> <<"0", "0", "0", "8", ",",
        "0", "0", "6", "0">>],
    [line |-> <<"(", "0", "0", "e", "1", ",", "z", "z", "_", "9", ")", " ", "L", "O", " ",
          "V", "e", "n", "d", "o", "r", "\n">>, tag |-> <<"0", "0", "e", "1", ",", "z",
          "z", "_", "9">>] }

\* a line that looks like a header and does not match: "-" is no word character
NearHeaderLine == <<"(", "0", "0", "-", "8", ",", "0", "0", "6", "0", ")", " ", "C", "S",
      " ", "M", "o", "d", "a", "l", "i", "t", "y", "\n">>

\* indented lines, each with the value it carries
IndentedPool ==
  { [line |-> <<" ", " ", "M", "R", "\n">>, text |-> <<"M", "R">>],
    [line |-> <<" ", " ", " ", " ", "C", "T", " ", " ", "\n">>, text |-> <<"C", "T">>] }

\* a line of three spaces
SpacesLine == <<" ", " ", " ", "\n">>

\* a line of one space
OneSpaceLine == <<" ", "\n">>

StdLinePool ==
  {SentinelLine, NearHeaderLine, BlankLine, SpacesLine, OneSpaceLine}
    \cup {h.line : h \in MatchingPool} \cup {v.line : v \in IndentedPool}

InitStdLines ==
  /\ disk \in {[EmptyDir EXCEPT ![StdFile] = File(lines)] :
                 lines \in SeqsUpTo(StdLinePool, 0, MaxStdLines)}
  /\ cache = <<>>
  /\ parsed_data = NoData
  /\ ret = NoCall
  /\ sniffer = NotStarted
  /\ IdleWizard

NextStdLines == ParseStandardElements(StdFile)

SpecStdLines == InitStdLines /\ [][NextStdLines]_vars

\* parse_standard_elements has returned the catalog of the file
CatalogReturned == ret.op = "parse_standard_elements" /\ ret.status = "ok"

UpperHexDigits == Digits \cup {"A", "B", "C", "D", "E", "F"}

\* GGGG,EEEE with every G and E taken from chars
HasTagForm(key, chars) ==
  /\ Len(key) = 9
  /\ key[5] = ","
  /\ \A i \in {1, 2, 3, 4, 6, 7, 8, 9} : key[i] \in chars

\* C13 as stated: every key of the catalog is GGGG,EEEE in uppercase
\* hexadecimal digits.
C13_AsStated ==
  CatalogReturned =>
    \A i \in 1..Len(ret.val) : HasTagForm(ret.val[i].key, UpperHexDigits)

\* C13: every key of the catalog is GGGG,EEEE where each of the eight
\* characters is a word character (a letter of either case, a digit or "_"),
\* as the grammar \w{4},\w{4} of the header line admits.
C13_WordCharacterKeys ==
  CatalogReturned =>
    \A i \in 1..Len(ret.val) : HasTagForm(ret.val[i].key, WordChars)

\* the catalog returned holds the key 00e1,zz_9
C13_Witness ==
  /\ CatalogReturned
  /\ \E i \in 1..Len(ret.val) : ret.val[i].key = <<"0", "0", "e", "1", ",", "z", "z", "_",
        "9">>
-----------------------------------------------------------------------------
(* SpecSummary: generate_html_report on a directory with a scan summary    *)

MaxCounter == 4

\* the scan summaries: the files found, the DICOM files parsed, the parse errors
SummaryFiles == {File(<<t, p, e>>) : t \in 0..MaxCounter, p \in 0..MaxCounter, e \in 0..MaxCounter}

InitSummary ==
  /\ disk \in {[SampleDir EXCEPT ![SummaryFile] = f] : f \in SummaryFiles \cup {NoFile}}
  /\ cache = <<>>
  /\ parsed_data = NoData
  /\ ret = NoCall
  /\ sniffer = NotStarted
  /\ IdleWizard

NextSummary == GenerateHtmlReport(<<>>, ReportStamp)

SpecSummary == InitSummary /\ [][NextSummary]_vars

\* the report of a directory whose scan summary counts files
SummaryReported ==
  /\ ret.op = "generate_html_report" /\ ret.status = "ok"
  /\ disk[SummaryFile].exists /\ disk[SummaryFile].lines[1] > 0

\* where the document says "non-DICOM skipped": the figure stands just before
SkippedPositions(doc) ==
  {i \in 2..Len(doc) : doc[i] = [k |-> "lit", t |-> " non-DICOM skipped", d |-> <<>>]}

\* the number a figure of the document reads as
FigureValue(text) ==
  IF text[1] = "-" THEN 0 - DigitsValue(SubSeq(text, 2, Len(text)), 1, 0)
  ELSE DigitsValue(text, 1, 0)

\* the skipped figure of the summary in the directory
SkippedOf(file) == file.lines[1] - file.lines[2] - file.lines[3]

\* the figure is totalFiles - dicomParsed - parseErrors, shown once when it is
\* not zero and not at all when it is zero
FigureIsDifference ==
  SummaryReported =>
    /\ Cardinality(SkippedPositions(ret.val)) = IF SkippedOf(disk[SummaryFile]) = 0 THEN 0 ELSE 1
    /\ \A i \in SkippedPositions(ret.val) :
         FigureValue(ret.val[i - 1].d) = SkippedOf(disk[SummaryFile])

\* C14 as stated: the skipped figure is totalFiles - dicomParsed - parseErrors
\* and is a non-negative number of files whenever it is shown.
C14_AsStated ==
  /\ FigureIsDifference
  /\ SummaryReported =>
       \A i \in SkippedPositions(ret.val) : ret.val[i - 1].d[1] # "-"

\* C14: in the overview of the static document the skipped figure equals
\* totalFiles - dicomParsed - parseErrors of the scan summary; it is shown
\* whenever that difference is not zero, a negative difference included, and
\* left out when it is zero.
C14_SkippedFigure ==
  /\ FigureIsDifference
  /\ SummaryReported =>
       (SkippedOf(disk[SummaryFile]) < 0 =>
          \E i \in SkippedPositions(ret.val) : ret.val[i - 1].d[1] = "-")

\* a report shows the skipped figure -2 of a summary with 3 files found, 4
\* parsed and 1 parse error
C14_Witness ==
  /\ SummaryReported
  /\ disk[SummaryFile].lines = <<3, 4, 1>>
  /\ \E i \in SkippedPositions(ret.val) : ret.val[i - 1].d = <<"-", "2">>
-----------------------------------------------------------------------------
(* SpecSniffer: runs of the scanner that write up to MaxOutputLines lines  *)

MaxOutputLines == 22

\* 0, an error exit, and the exit of a process killed by signal 9
ExitCodes == {0, 1, 0 - 9}

\* the text of the i-th line the scanner writes
OutputText(i) == <<"p", "r", "o", "c", "e", "s", "s", "e", "d", " ">> \o str(i)

Outputs == {[i \in 1..n |-> OutputText(i) \o <<"\n">>] : n \in 0..MaxOutputLines}

InitSniffer ==
  /\ disk = EmptyDir
  /\ cache = <<>>
  /\ parsed_data = NoData
  /\ ret = NoCall
  /\ sniffer = NotStarted
  /\ IdleWizard

NextSniffer ==
  \/ \E output \in Outputs, returncode \in ExitCodes : RunTagSniffer(output, returncode)
  \/ SnifferYields
  \/ SnifferExits

SpecSniffer == InitSniffer /\ [][NextSniffer]_vars

Min(a, b) == IF a < b THEN a ELSE b

\* the last min(TailLength, n) of the n lines written, each followed by a line
\* break except the last
RECURSIVE ExpectedTail(_, _)
ExpectedTail(i, n) ==
  IF i > n THEN <<>>
  ELSE OutputText(i) \o (IF i < n THEN <<"\n">> ELSE <<>>) \o ExpectedTail(i + 1, n)

\* C15: when the scanner exits with a non-zero code, run_tag_sniffer has
\* yielded every output line and then fails with a RuntimeError whose message
\* carries the exit code and the last min(10, n) lines of the output in their
\* order; when it exits with 0 it returns without failure; at every yield and
\* at the end the buffer of retained lines holds at most 20 lines.
C15_FailureCarriesTail ==
  /\ sniffer.pc # "idle" => Len(sniffer.last_lines) <= 20
  /\ sniffer.pc = "done" =>
       LET n == Len(sniffer.output) IN
       /\ ret.op = "run_tag_sniffer"
       /\ sniffer.yielded = [i \in 1..n |-> OutputText(i)]
       /\ sniffer.returncode = 0 => ret.status = "ok"
       /\ sniffer.returncode # 0 =>
            /\ ret.status = "RuntimeError"
            /\ ret.val = <<"T", "a", "g", " ", "s", "n", "i", "f", "f", "e", "r", " ", "e",
                  "x", "i", "t", "e", "d", " ", "w", "i", "t", "h", " ", "c", "o", "d",
                  "e", " ">> \o str(sniffer.returncode)
                           \o <<"\n", "\n", "L", "a", "s", "t", " ", "o", "u", "t", "p",
                                "u", "t", ":", "\n">>
                           \o ExpectedTail(n - Min(10, n) + 1, n)

\* the scanner wrote 22 lines and exited with code 1: run_tag_sniffer has
\* failed, with 20 lines left in the buffer
C15_Witness ==
  /\ sniffer.pc = "done" /\ sniffer.returncode = 1
  /\ Len(sniffer.output) = 22 /\ Len(sniffer.last_lines) = 20
  /\ ret.status = "RuntimeError"
-----------------------------------------------------------------------------
(* the listing phase, read off the lines of a file of SpecStdLines         *)

MatchingHeaders == {h.line : h \in MatchingPool}

\* the tag a matching header line names
NamedTag(line) == (CHOOSE h \in MatchingPool : h.line = line).tag

\* the lines str.strip() leaves nothing of
BlankLines == {BlankLine, SpacesLine, OneSpaceLine}

\* the last sentinel line before line i, 0 when there is none
SentinelBefore(lines, i) ==
  IF \E s \in 1..(i - 1) : lines[s] = SentinelLine
  THEN CHOOSE s \in 1..(i - 1) :
         lines[s] = SentinelLine /\ \A k \in (s + 1)..(i - 1) : lines[k] # SentinelLine
  ELSE 0

\* line i is a header of the listing: a matching line after a sentinel, with
\* no blank line in between that follows a header of the listing
RECURSIVE Listed(_, _)
Listed(lines, i) ==
  /\ lines[i] \in MatchingHeaders
  /\ SentinelBefore(lines, i) # 0
  /\ \A b \in (SentinelBefore(lines, i) + 1)..(i - 1) :
       ~(lines[b] \in BlankLines /\ \E j \in 1..(b - 1) : Listed(lines, j))

ListedPositions(lines) == {i \in 1..Len(lines) : Listed(lines, i)}

\* where tag is first listed
FirstListed(lines, tag) ==
  CHOOSE i \in ListedPositions(lines) :
    /\ NamedTag(lines[i]) = tag
    /\ \A j \in ListedPositions(lines) : NamedTag(lines[j]) = tag => i <= j

\* the first sentinel line of the file, 0 when there is none
FirstSentinel(lines) ==
  IF \E s \in 1..Len(lines) : lines[s] = SentinelLine
  THEN CHOOSE s \in 1..Len(lines) :
         lines[s] = SentinelLine /\ \A k \in 1..(s - 1) : lines[k] # SentinelLine
  ELSE 0

\* line i is a header of a listing phase that starts at the first sentinel and
\* ends for good at the first blank line after a match
RECURSIVE ListedOnce(_, _)
ListedOnce(lines, i) ==
  /\ lines[i] \in MatchingHeaders
  /\ FirstSentinel(lines) # 0 /\ FirstSentinel(lines) < i
  /\ \A b \in (FirstSentinel(lines) + 1)..(i - 1) :
       ~(lines[b] \in BlankLines /\ \E j \in 1..(b - 1) : ListedOnce(lines, j))

\* C16 as stated: lines before the sentinel are ignored, the first blank line
\* after at least one match ends the listing phase, blank lines before the
\* first match do not, and header lines after the end of the listing phase
\* add no catalog entry.
C16_AsStated ==
  CatalogReturned =>
    LET lines == disk[StdFile].lines
        keys == Keys(ret.val)
    IN {keys[k] : k \in 1..Len(keys)}
         = {NamedTag(lines[i]) : i \in {j \in 1..Len(lines) : ListedOnce(lines, j)}}

\* C16: the catalog of parse_standard_elements has an entry exactly for the
\* tags of the header lines of a listing, in the order in which they are
\* first listed: header lines before the first sentinel add none, a blank
\* line before the first match does not end the listing, the first blank line
\* after a match ends it, and header lines after its end add none until a
\* line equal to the sentinel opens the listing again.
C16_ListingPhase ==
  CatalogReturned =>
    LET lines == disk[StdFile].lines
        keys == Keys(ret.val)
    IN /\ {keys[k] : k \in 1..Len(keys)} = {NamedTag(lines[i]) : i \in ListedPositions(lines)}
       /\ \A a, b \in 1..Len(keys) :
            a < b => FirstListed(lines, keys[a]) < FirstListed(lines, keys[b])

\* the catalog of a file with a blank line between the sentinel and the first
\* header, and a second header after the blank line that ends the listing,
\* holds the first header's tag alone
C16_Witness ==
  /\ CatalogReturned
  /\ disk[StdFile].lines = <<SentinelLine, BlankLine, <<"(", "0", "0", "0", "8", ",", "0",
        "0", "6", "0", ")", " ", "C", "S", " ", "M", "o", "d", "a", "l", "i", "t", "y",
        "\n">>,
                             BlankLine, <<"(", "0", "0", "e", "1", ",", "z", "z", "_", "9",
                                   ")", " ", "L", "O", " ", "V", "e", "n", "d", "o", "r",
                                   "\n">>>>
  /\ Keys(ret.val) = << <<"0", "0", "0", "8", ",", "0", "0", "6", "0">> >>
-----------------------------------------------------------------------------
(* the values phase, read off the lines of a file of SpecStdLines          *)

\* the lines that start with two spaces, each with what is left of it when the
\* white space at both ends is taken away
IndentedLines == IndentedPool \cup {[line |-> SpacesLine, text |-> <<>>]}

IsIndented(line) == \E v \in IndentedLines : v.line = line

TrimmedText(line) == (CHOOSE v \in IndentedLines : v.line = line).text

\* the values of tag from line i on: the trimmed text of every indented line
\* whose nearest matching header line above names tag
RECURSIVE ValuesFollowing(_, _, _)
ValuesFollowing(lines, tag, i) ==
  IF i > Len(lines) THEN <<>>
  ELSE (IF /\ IsIndented(lines[i])
           /\ HeaderAbove(lines, i, MatchingHeaders) # 0
           /\ NamedTag(lines[HeaderAbove(lines, i, MatchingHeaders)]) = tag
        THEN <<TrimmedText(lines[i])>> ELSE <<>>)
       \o ValuesFollowing(lines, tag, i + 1)

\* C17: the value list of every tag of the catalog holds, in file order and
\* with duplicates kept, the trimmed text of exactly the lines with at least
\* two leading spaces whose nearest header line above names that tag; the
\* indented lines that follow a header of a tag outside the catalog are in no
\* value list.
C17_ValuesUnderCataloguedHeaders ==
  CatalogReturned =>
    \A k \in 1..Len(ret.val) :
      ret.val[k].val.values = ValuesFollowing(disk[StdFile].lines, ret.val[k].key, 1)

\* a header outside the catalog with an indented line that is dropped, then
\* the listing with one header and the same value twice under it
C17_Witness ==
  /\ CatalogReturned
  /\ disk[StdFile].lines = << <<"(", "0", "0", "e", "1", ",", "z", "z", "_", "9", ")", " ",
        "L", "O", " ", "V", "e", "n", "d", "o", "r", "\n">>, <<" ", " ", " ", " ", "C",
        "T", " ", " ", "\n">>, SentinelLine,
                              <<"(", "0", "0", "0", "8", ",", "0", "0", "6", "0", ")", " ",
                                "C", "S", " ", "M", "o", "d", "a", "l", "i", "t", "y",
                                "\n">>, <<" ", " ", "M", "R", "\n">> >>
  /\ Keys(ret.val) = << <<"0", "0", "0", "8", ",", "0", "0", "6", "0">> >>
  /\ ret.val[1].val.values = << <<"M", "R">> >>
-----------------------------------------------------------------------------
(* blank lines in the values phase                                         *)

\* the values of tag from line i on that come from lines with text
RECURSIVE TextValuesFollowing(_, _, _)
TextValuesFollowing(lines, tag, i) ==
  IF i > Len(lines) THEN <<>>
  ELSE (IF /\ \E v \in IndentedPool : v.line = lines[i]
           /\ HeaderAbove(lines, i, MatchingHeaders) # 0
           /\ NamedTag(lines[HeaderAbove(lines, i, MatchingHeaders)]) = tag
        THEN <<(CHOOSE v \in IndentedPool : v.line = lines[i]).text>> ELSE <<>>)
       \o TextValuesFollowing(lines, tag, i + 1)

\* the values of a list that are not the empty string, in order
NonEmptyValues(values) == SelectSeq(values, LAMBDA v : v # <<>>)

\* how many values of a list are the empty string
EmptyValueCount(values) == Cardinality({i \in 1..Len(values) : values[i] = <<>>})

\* the whitespace-only lines that start with two spaces and stand under a
\* header of tag
IndentedBlanksUnder(lines, tag) ==
  {i \in 1..Len(lines) :
     /\ lines[i] = SpacesLine
     /\ HeaderAbove(lines, i, MatchingHeaders) # 0
     /\ NamedTag(lines[HeaderAbove(lines, i, MatchingHeaders)]) = tag}

\* C18 as stated: a blank line, empty or of white space only, adds no value to
\* any value list and leaves the current tag as it is.
C18_AsStated ==
  CatalogReturned =>
    \A k \in 1..Len(ret.val) :
      ret.val[k].val.values = TextValuesFollowing(disk[StdFile].lines, ret.val[k].key, 1)

\* C18: no blank line changes the current tag, and an empty line or a line of
\* white space that does not start with two spaces adds no value; a line of
\* white space that starts with two spaces adds the empty string to the value
\* list of the current tag, once for each such line.
C18_BlankLinesKeepTag ==
  CatalogReturned =>
    \A k \in 1..Len(ret.val) :
      /\ NonEmptyValues(ret.val[k].val.values)
           = TextValuesFollowing(disk[StdFile].lines, ret.val[k].key, 1)
      /\ EmptyValueCount(ret.val[k].val.values)
           = Cardinality(IndentedBlanksUnder(disk[StdFile].lines, ret.val[k].key))

\* under the one header of the catalog stand a line of three spaces, an empty
\* line and a value: the value list is the empty string and the value
C18_Witness ==
  /\ CatalogReturned
  /\ disk[StdFile].lines = <<SentinelLine, <<"(", "0", "0", "0", "8", ",", "0", "0", "6",
        "0", ")", " ", "C", "S", " ", "M", "o", "d", "a", "l", "i", "t", "y",
        "\n">>, SpacesLine,
                             BlankLine, <<" ", " ", " ", " ", "C", "T", " ", " ", "\n">>>>
  /\ ret.val[1].val.values = << <<>>, <<"C", "T">> >>
-----------------------------------------------------------------------------
(* SpecPrivKeys: parse_private_elements on files with two keys             *)

PrivKeyPool ==
  { [line |-> <<"S", "I", "E", "M", "E", "N", "S", " ", "(", "0", "0", "1", "9", ",", "1",
        "0", "0", "8", ")", "\n">>, key |-> <<"S", "I", "E", "M", "E", "N", "S", " ", "(",
        "0", "0", "1", "9", ",", "1", "0", "0", "8", ")">>],
    [line |-> <<"G", "E", "M", "S", " ", "(", "0", "0", "4", "3", ",", "1", "0", "0", "1",
          ")", "\n">>, key |-> <<"G", "E", "M", "S", " ", "(", "0", "0", "4", "3", ",",
          "1", "0", "0", "1", ")">>],
    [line |-> PrivateElementsLabel \o <<"\n">>, key |-> PrivateElementsLabel],
    [line |-> ListOfElementKeysLabel \o <<"\n">>, key |-> ListOfElementKeysLabel] }

PrivValueLine == <<" ", " ", "4", "\n">>

PrivKeyLinePool ==
  {k.line : k \in PrivKeyPool} \cup {PrivValueLine, BlankLine, SpacesLine}

InitPrivKeys ==
  /\ disk \in {[EmptyDir EXCEPT ![PrivFile] = File(lines)] :
                 lines \in SeqsUpTo(PrivKeyLinePool, 0, MaxPrivLines)}
  /\ cache = <<>>
  /\ parsed_data = NoData
  /\ ret = NoCall
  /\ sniffer = NotStarted
  /\ IdleWizard

NextPrivKeys == ParsePrivateElements(PrivFile)

SpecPrivKeys == InitPrivKeys /\ [][NextPrivKeys]_vars

\* the non-blank, non-indented lines
PrivKeyLines == {k.line : k \in PrivKeyPool}

PrivKeyOf(line) == (CHOOSE k \in PrivKeyPool : k.line = line).key

\* the first blank line at an index above 2, counted from 1; 0 when no blank
\* line stands there
SeparatorOf(lines) ==
  LET late == {j \in 1..Len(lines) : lines[j] \in {BlankLine, SpacesLine} /\ j - 1 > 2}
  IN IF late = {} THEN 0 ELSE CHOOSE j \in late : \A k \in late : j <= k

\* the lines behind the separator that open a key
KeyPositionsBehind(lines) ==
  {j \in 1..Len(lines) : j > SeparatorOf(lines) /\ lines[j] \in PrivKeyLines}

\* how many value lines stand under key behind the separator
ValueCountBehind(lines, key) ==
  Cardinality({j \in 1..Len(lines) :
                 /\ lines[j] = PrivValueLine
                 /\ \E h \in KeyPositionsBehind(lines) :
                      /\ h < j /\ PrivKeyOf(lines[h]) = key
                      /\ \A m \in KeyPositionsBehind(lines) : m < j => m <= h})

PrivateReturned == ret.op = "parse_private_elements" /\ ret.path = PrivFile

\* C19: parse_private_elements reads nothing of the lines up to the separator,
\* the first blank line at an index above 2: the keys of the result are the
\* non-blank, non-indented lines behind the separator, so that a key that
\* stands in the key listing alone is no key of the result, each value list
\* holds the indented lines under the key behind the separator, and the result
\* is the empty mapping when no blank line stands at an index above 2.
C19_ListingDiscarded ==
  PrivateReturned =>
    LET lines == disk[PrivFile].lines
    IN /\ ret.status = "ok"
       /\ SeparatorOf(lines) = 0 => ret.val = <<>>
       /\ SeparatorOf(lines) # 0 =>
            /\ {ret.val[k].key : k \in 1..Len(ret.val)}
                 = {PrivKeyOf(lines[j]) : j \in KeyPositionsBehind(lines)}
            /\ \A k \in 1..Len(ret.val) :
                 ret.val[k].val
                   = [n \in 1..ValueCountBehind(lines, ret.val[k].key) |-> << "4" >>]

\* one key stands in the key listing alone and another behind the separator:
\* the result holds the second key alone
C19_Witness ==
  /\ PrivateReturned
  /\ disk[PrivFile].lines
       = << ListOfElementKeysLabel \o <<"\n">>, <<"S", "I", "E", "M", "E", "N", "S", " ",
             "(", "0", "0", "1", "9", ",", "1", "0", "0", "8", ")", "\n">>,
            <<"S", "I", "E", "M", "E", "N", "S", " ", "(", "0", "0", "1", "9", ",", "1",
              "0", "0", "8", ")", "\n">>, BlankLine, <<"G", "E", "M", "S", " ", "(", "0",
              "0", "4", "3", ",", "1", "0", "0", "1", ")", "\n">> >>
  /\ ret.status = "ok"
  /\ Keys(ret.val) = << <<"G", "E", "M", "S", " ", "(", "0", "0", "4", "3", ",", "1", "0",
        "0", "1", ")">> >>
-----------------------------------------------------------------------------
(* SpecSequences: parse_sequences on every file of a few lines             *)

MaxSeqLines == 5

SeqFile == "standard_sequences.txt"

\* a header label alone on its line, and a line that starts with a label
LabelLine == StandardSequenceLabel \o <<"\n">>

LabelledLine == PrivateSequenceLabel \o <<" ", "T", "a", "g", "s", "\n">>

\* non-indented lines that are neither; the second has one leading space
SeqKeyPool ==
  { [line |-> <<"(", "0", "0", "0", "8", ",", "1", "1", "4", "0", ")", " ", "S", "Q",
        "\n">>, key |-> <<"(", "0", "0", "0", "8", ",", "1", "1", "4", "0", ")", " ", "S",
        "Q">>],
    [line |-> <<" ", "S", "t", "a", "n", "d", "a", "r", "d", " ", "S", "e", "q", "u", "e",
          "n", "c", "e", "\n">>, key |-> StandardSequenceLabel] }

SeqValueLine == <<" ", " ", "v", "\n">>

SeqLinePool ==
  {LabelLine, LabelledLine, SeqValueLine, BlankLine, SpacesLine}
    \cup {k.line : k \in SeqKeyPool}

InitSequences ==
  /\ disk \in {[EmptyDir EXCEPT ![SeqFile] = File(lines)] :
                 lines \in SeqsUpTo(SeqLinePool, 0, MaxSeqLines)}
  /\ cache = <<>>
  /\ parsed_data = NoData
  /\ ret = NoCall
  /\ sniffer = NotStarted
  /\ IdleWizard

NextSequences == ParseSequences(SeqFile)

SpecSequences == InitSequences /\ [][NextSequences]_vars

SequencesReturned ==
  ret.op = "parse_sequences" /\ ret.path = SeqFile /\ ret.status = "ok"

\* the lines of a file that are in the set opening, each with its key
OpeningPositions(lines, opening) ==
  {j \in 1..Len(lines) : \E k \in opening : k.line = lines[j]}

KeyAt(lines, j, opening) == (CHOOSE k \in opening : k.line = lines[j]).key

\* how many value lines have a line of key as the nearest opening line above
ValueCountUnder(lines, key, opening) ==
  Cardinality({j \in 1..Len(lines) :
                 /\ lines[j] = SeqValueLine
                 /\ \E h \in OpeningPositions(lines, opening) :
                      /\ h < j /\ KeyAt(lines, h, opening) = key
                      /\ \A m \in OpeningPositions(lines, opening) : m < j => m <= h})

\* the mapping is the one whose keys are opened by the lines of opening
MappingOpenedBy(opening) ==
  LET lines == disk[SeqFile].lines
  IN /\ {ret.val[k].key : k \in 1..Len(ret.val)}
          = {KeyAt(lines, j, opening) : j \in OpeningPositions(lines, opening)}
     /\ \A k \in 1..Len(ret.val) :
          ret.val[k].val
            = [n \in 1..ValueCountUnder(lines, ret.val[k].key, opening) |-> << "v" >>]

\* C20 as stated: only blank lines and lines equal to a header label are
\* skipped, so that a non-indented line that starts with a label and goes on
\* opens a key.
C20_AsStated ==
  SequencesReturned =>
    MappingOpenedBy(SeqKeyPool
                      \cup {[line |-> LabelledLine, key |-> PrivateSequenceLabel \o <<" ",
                            "T", "a", "g", "s">>]})

\* C20: parse_sequences skips the blank lines and every line that starts with
\* one of the two header labels, whatever follows the label on the line; every
\* other non-indented line opens the key of its trimmed text, and an indented
\* line is appended to the key opened last, or dropped when none is open.
C20_LabelPrefixSkipped ==
  SequencesReturned => MappingOpenedBy(SeqKeyPool)

\* a value before any key, a key, a line that starts with a label, a value:
\* the mapping holds the key alone, with the second value
C20_Witness ==
  /\ SequencesReturned
  /\ disk[SeqFile].lines
       = << SeqValueLine, <<"(", "0", "0", "0", "8", ",", "1", "1", "4", "0", ")", " ",
             "S", "Q", "\n">>, LabelledLine, SeqValueLine >>
  /\ Keys(ret.val) = << <<"(", "0", "0", "0", "8", ",", "1", "1", "4", "0", ")", " ", "S",
        "Q">> >>
  /\ ret.val[1].val = << << "v" >> >>
-----------------------------------------------------------------------------
(* SpecReopen: parse_private_elements and parse_sequences on files whose   *)
(* key headers stand more than once                                        *)

MaxReopenLines == 5

ReopenKeyPool ==
  { [line |-> <<"S", "I", "E", "M", "E", "N", "S", " ", "(", "0", "0", "1", "9", ",", "1",
        "0", "0", "8", ")", "\n">>, key |-> <<"S", "I", "E", "M", "E", "N", "S", " ", "(",
        "0", "0", "1", "9", ",", "1", "0", "0", "8", ")">>],
    [line |-> <<"G", "E", "M", "S", " ", "(", "0", "0", "4", "3", ",", "1", "0", "0", "1",
          ")", "\n">>, key |-> <<"G", "E", "M", "S", " ", "(", "0", "0", "4", "3", ",",
          "1", "0", "0", "1", ")">>] }

ReopenValuePool ==
  { [line |-> <<" ", " ", "4", "\n">>, text |-> << "4" >>],
    [line |-> <<" ", " ", "v", "\n">>, text |-> << "v" >>] }

ReopenLinePool ==
  {k.line : k \in ReopenKeyPool} \cup {v.line : v \in ReopenValuePool} \cup {BlankLine}

\* the two header labels, a key of the key listing and the separator
PrivatePrefix ==
  << PrivateElementsLabel \o <<"\n">>, ListOfElementKeysLabel \o <<"\n">>,
     <<"S", "I", "E", "M", "E", "N", "S", " ", "(", "0", "0", "1", "9", ",", "1", "0", "0",
       "8", ")", "\n">>, BlankLine >>

\* the same lines stand behind the separator of the private-elements file and
\* in the sequences file
InitReopen ==
  /\ disk \in {[EmptyDir EXCEPT ![PrivFile] = File(PrivatePrefix \o body),
                                ![SeqFile] = File(body)] :
                 body \in SeqsUpTo(ReopenLinePool, 0, MaxReopenLines)}
  /\ cache = <<>>
  /\ parsed_data = NoData
  /\ ret = NoCall
  /\ sniffer = NotStarted
  /\ IdleWizard

NextReopen ==
  \/ ParsePrivateElements(PrivFile)
  \/ ParseSequences(SeqFile)

SpecReopen == InitReopen /\ [][NextReopen]_vars

ReopenKeyLines == {k.line : k \in ReopenKeyPool}

ReopenKeyOf(line) == (CHOOSE k \in ReopenKeyPool : k.line = line).key

\* the keys of the key lines from line i on, each at its first occurrence
RECURSIVE FirstSeenKeys(_, _, _)
FirstSeenKeys(body, i, seen) ==
  IF i > Len(body) THEN <<>>
  ELSE IF body[i] \in ReopenKeyLines /\ ReopenKeyOf(body[i]) \notin seen
    THEN <<ReopenKeyOf(body[i])>>
           \o FirstSeenKeys(body, i + 1, seen \cup {ReopenKeyOf(body[i])})
  ELSE FirstSeenKeys(body, i + 1, seen)

\* the key line nearest above line i, 0 when there is none
KeyLineAbove(body, i) ==
  IF \E j \in 1..(i - 1) : body[j] \in ReopenKeyLines
  THEN CHOOSE j \in 1..(i - 1) :
         body[j] \in ReopenKeyLines /\ \A k \in (j + 1)..(i - 1) : body[k] \notin ReopenKeyLines
  ELSE 0

\* the indented lines from line i on that follow an occurrence of key
RECURSIVE ValuesOfOccurrences(_, _, _)
ValuesOfOccurrences(body, key, i) ==
  IF i > Len(body) THEN <<>>
  ELSE (IF /\ \E v \in ReopenValuePool : v.line = body[i]
           /\ KeyLineAbove(body, i) # 0
           /\ ReopenKeyOf(body[KeyLineAbove(body, i)]) = key
        THEN <<(CHOOSE v \in ReopenValuePool : v.line = body[i]).text>> ELSE <<>>)
       \o ValuesOfOccurrences(body, key, i + 1)

ReopenReturned ==
  \/ ret.op = "parse_private_elements" /\ ret.path = PrivFile
  \/ ret.op = "parse_sequences" /\ ret.path = SeqFile

\* C21: in the mapping parse_private_elements and parse_sequences return, the
\* keys stand in the order in which they are first seen, each once, and the
\* value list of a key is the concatenation, in file order, of the indented
\* lines that follow each of its occurrences: a header met again neither moves
\* the key nor empties its list.
C21_ReopenedKeyExtends ==
  ReopenReturned =>
    LET body == disk[SeqFile].lines
    IN /\ ret.status = "ok"
       /\ Keys(ret.val) = FirstSeenKeys(body, 1, {})
       /\ \A k \in 1..Len(ret.val) :
            ret.val[k].val = ValuesOfOccurrences(body, ret.val[k].key, 1)

\* parse_private_elements has read a first key with a value, a second key,
\* and the first key again with another value
C21_Witness ==
  /\ ret.op = "parse_private_elements"
  /\ disk[SeqFile].lines
       = << <<"S", "I", "E", "M", "E", "N", "S", " ", "(", "0", "0", "1", "9", ",", "1",
             "0", "0", "8", ")", "\n">>, <<" ", " ", "4", "\n">>, <<"G", "E", "M", "S",
             " ", "(", "0", "0", "4", "3", ",", "1", "0", "0", "1", ")", "\n">>,
            <<"S", "I", "E", "M", "E", "N", "S", " ", "(", "0", "0", "1", "9", ",", "1",
              "0", "0", "8", ")", "\n">>, <<" ", " ", "v", "\n">> >>
  /\ ret.val = << [key |-> <<"S", "I", "E", "M", "E", "N", "S", " ", "(", "0", "0", "1",
        "9", ",", "1", "0", "0", "8", ")">>, val |-> << << "4" >>, << "v" >> >>],
                  [key |-> <<"G", "E", "M", "S", " ", "(", "0", "0", "4", "3", ",", "1",
                        "0", "0", "1", ")">>, val |-> <<>>] >>
-----------------------------------------------------------------------------
(* SpecCountLines: parse_counts on every file of a few lines               *)

MaxCountLines == 4

\* lines of a counts file, each with the fields it holds: six fields, seven,
\* five, and six fields between runs of spaces and tabs
CountLinePool ==
  { [line |-> <<"1", ".", "2", ".", "3", " ", "2", " ", "1", "0", " ", "1", " ", "0", " ",
        "0", "\n">>,
     fields |-> << <<"1", ".", "2", ".", "3">>, << "2" >>, <<"1",
           "0">>, << "1" >>, << "0" >>, << "0" >> >>],
    [line |-> <<"1", ".", "2", ".", "4", " ", "1", " ", "x", " ", "3", " ", "2", " ", "1",
          " ", "9", "\n">>,
     fields |-> << <<"1", ".", "2", ".",
           "4">>, << "1" >>, << "x" >>, << "3" >>, << "2" >>, << "1" >>, << "9" >> >>],
    [line |-> <<"1", ".", "2", ".", "5", " ", "1", " ", "7", " ", "0", " ", "0", "\n">>,
     fields |-> << <<"1", ".", "2", ".",
           "5">>, << "1" >>, << "7" >>, << "0" >>, << "0" >> >>],
    [line |-> <<" ", " ", "1", ".", "2", ".", "6", "\t", "\t", "4", " ", " ", " ", "8",
          " ", "5", "\t", "6", " ", " ", "7", " ", " ", "\n">>,
     fields |-> << <<"1", ".", "2", ".",
           "6">>, << "4" >>, << "8" >>, << "5" >>, << "6" >>, << "7" >> >>],
    [line |-> BlankLine, fields |-> <<>>],
    [line |-> SpacesLine, fields |-> <<>>] }

InitCountLines ==
  /\ disk \in {[EmptyDir EXCEPT ![CountsFile] = File(lines)] :
                 lines \in SeqsUpTo({l.line : l \in CountLinePool}, 0, MaxCountLines)}
  /\ cache = <<>>
  /\ parsed_data = NoData
  /\ ret = NoCall
  /\ sniffer = NotStarted
  /\ IdleWizard

NextCountLines == ParseCounts(CountsFile)

SpecCountLines == InitCountLines /\ [][NextCountLines]_vars

FieldsOf(line) == (CHOOSE l \in CountLinePool : l.line = line).fields

\* the rows of the lines from the i-th on: one for each line of 6 fields or
\* more, made of the fields at the positions 0, 2, 3, 4 and 5
RECURSIVE RowsFrom(_, _)
RowsFrom(lines, i) ==
  IF i > Len(lines) THEN <<>>
  ELSE (IF Len(FieldsOf(lines[i])) >= 6
        THEN << [StudyUID |-> FieldsOf(lines[i])[1], Files |-> FieldsOf(lines[i])[3],
                 Over1KB |-> FieldsOf(lines[i])[4], Over20KB |-> FieldsOf(lines[i])[5],
                 Over50KB |-> FieldsOf(lines[i])[6]] >>
        ELSE <<>>)
       \o RowsFrom(lines, i + 1)

CountLinesReturned == ret.op = "parse_counts" /\ ret.path = CountsFile

\* C22: parse_counts leaves the first line out, whatever it holds, and returns
\* one row for each later line that holds 6 fields or more between runs of
\* white space, in file order; the row holds the fields at the positions 0, 2,
\* 3, 4 and 5 as text.
C22_RowsOfFields ==
  CountLinesReturned =>
    ret.status = "ok" /\ ret.val = RowsFrom(disk[CountsFile].lines, 2)

\* a first line of six fields, a line of five fields, a line of six fields
\* between runs of spaces and tabs, a line of seven fields: two rows
C22_Witness ==
  /\ CountLinesReturned
  /\ disk[CountsFile].lines
       = << <<"1", ".", "2", ".", "3", " ", "2", " ", "1", "0", " ", "1", " ", "0", " ",
             "0", "\n">>, <<"1", ".", "2", ".", "5", " ", "1", " ", "7", " ", "0", " ",
             "0", "\n">>, <<" ", " ", "1", ".", "2", ".", "6", "\t", "\t", "4", " ", " ",
             " ", "8", " ", "5", "\t", "6", " ", " ", "7", " ", " ", "\n">>,
            <<"1", ".", "2", ".", "4", " ", "1", " ", "x", " ", "3", " ", "2", " ", "1",
              " ", "9", "\n">> >>
  /\ Len(ret.val) = 2
  /\ ret.val[1].StudyUID = <<"1", ".", "2", ".", "6">> /\ ret.val[1].Files = << "8" >>
  /\ ret.val[2].Files = << "x" >> /\ ret.val[2].Over50KB = << "1" >>
-----------------------------------------------------------------------------
(* SpecPhi: the PHI Review of the static report and of the interactive     *)
(* dashboard on catalogs that hold tags of the taxonomy                    *)

\* three tags of the taxonomy, of two groups
PhiTagPool ==
  << [tag |-> <<"0", "0", "1", "0", ",", "0", "0", "1", "0">>, vr |-> <<"P",
        "N">>, keyword |-> <<"P", "a", "t", "i", "e", "n", "t", "N", "a", "m", "e">>],
     [tag |-> <<"0", "0", "1", "0", ",", "0", "0", "2", "0">>, vr |-> <<"L",
           "O">>, keyword |-> <<"P", "a", "t", "i", "e", "n", "t", "I", "D">>],
     [tag |-> <<"0", "0", "0", "8", ",", "0", "0", "8", "0">>, vr |-> <<"L",
           "O">>, keyword |-> <<"I", "n", "s", "t", "i", "t", "u", "t", "i", "o", "n", "N",
           "a", "m", "e">>] >>

\* what the file holds of a tag: no header, or a header in the listing and a
\* list of values, one of them a value of spaces alone
PhiValueLists ==
  { <<>>, << <<"D", "O", "E", "^", "J", "O", "H", "N">> >>, << << "x" >> >>, << <<"D", "O",
        "E", "^", "J", "O", "H", "N">>, << "x" >> >>, << <<" ">> >> }

PhiOptions ==
  {[listed |-> FALSE, values |-> <<>>]} \cup {[listed |-> TRUE, values |-> v] : v \in PhiValueLists}

PhiChoices == [1..Len(PhiTagPool) -> PhiOptions]

PhiHeader(t) == <<"(">> \o t.tag \o <<")",
      " ">> \o t.vr \o <<" ">> \o t.keyword \o <<"\n">>

\* the headers of the listed tags, from the i-th tag on
RECURSIVE PhiListing(_, _)
PhiListing(choice, i) ==
  IF i > Len(PhiTagPool) THEN <<>>
  ELSE (IF choice[i].listed THEN <<PhiHeader(PhiTagPool[i])>> ELSE <<>>)
       \o PhiListing(choice, i + 1)

\* the header and the indented values of the listed tags, from the i-th tag on
RECURSIVE PhiValueBlock(_, _)
PhiValueBlock(choice, i) ==
  IF i > Len(PhiTagPool) THEN <<>>
  ELSE (IF choice[i].listed
        THEN <<PhiHeader(PhiTagPool[i])>>
             \o [k \in 1..Len(choice[i].values) |-> <<" ",
                   " ">> \o choice[i].values[k] \o <<"\n">>]
        ELSE <<>>)
       \o PhiValueBlock(choice, i + 1)

PhiLines(choice) ==
  <<SentinelLine>> \o PhiListing(choice, 1) \o <<BlankLine>> \o PhiValueBlock(choice, 1)

InitPhi ==
  /\ disk \in {[SampleDir EXCEPT ![StdFile] = File(PhiLines(choice))] : choice \in PhiChoices}
  /\ cache = <<>>
  /\ parsed_data = NoData
  /\ ret = NoCall
  /\ sniffer = NotStarted
  /\ IdleWizard

NextPhi ==
  \/ GenerateHtmlReport(<<>>, ReportStamp)
  \/ \E section \in Sections : Main(section, 1)

SpecPhi == InitPhi /\ [][NextPhi]_vars

\* the (tag key, keyword) references of the taxonomy in its order, from the
\* g-th group on
RECURSIVE PhiReferences(_)
PhiReferences(g) ==
  IF g > Len(PHI_GROUPS) THEN <<>> ELSE PHI_GROUPS[g].tags \o PhiReferences(g + 1)

\* what the file in the directory holds of each tag of the pool
ChoiceOf(lines) == CHOOSE choice \in PhiChoices : PhiLines(choice) = lines

\* how many values the file holds for a tag key
ValueCountOf(choice, tag) ==
  IF \E i \in 1..Len(PhiTagPool) : PhiTagPool[i].tag = tag /\ choice[i].listed
  THEN Len(choice[CHOOSE i \in 1..Len(PhiTagPool) : PhiTagPool[i].tag = tag].values)
  ELSE 0

CountText(n) == IF n = 1 THEN << "1" >> ELSE << "2" >>

\* the place of position i among the positions of rows
RankIn(rows, i) == Cardinality({j \in rows : j <= i})

\* the rows of the PHI Review of the static document: the tag headers between
\* the heading of the section and the heading of the next one
StaticPhiRows(doc) ==
  LET At(t) == CHOOSE i \in 1..Len(doc) : doc[i] = [k |-> "lit", t |-> t, d |-> <<>>]
  IN {i \in (At("<h2>PHI Review</h2>") + 1)..(At("<h2>Tag Explorer</h2>") - 1) :
        doc[i] = [k |-> "lit", t |-> "<div class=\"tag-header\">", d |-> <<>>]}

\* the row at position i of the document names the reference and shows the
\* status of a list of n values
StaticRowShows(doc, i, reference, n) ==
  /\ doc[i + 2].d = reference[1] /\ doc[i + 4].d = reference[2]
  /\ IF n = 0
     THEN doc[i + 9].t = "<span class=\"status-clean\">Empty / Clean</span>"
     ELSE /\ doc[i + 9].t = "<span class=\"status-review\">"
          /\ doc[i + 10].d = CountText(n)
          /\ doc[i + 11].t = " value(s)</span>"

\* the rows of the PHI Review of the page: the labels a status follows
PagePhiRows(p) ==
  {i \in 1..(Len(p) - 1) : p[i].w = "markdown" /\ p[i + 1].w \in {"success", "warning"}}

PageRowShows(p, i, reference, n) ==
  /\ \E vr \in {<<>>} \cup {PhiTagPool[t].vr : t \in 1..Len(PhiTagPool)} :
       p[i].a = <<"*", "*", Backtick, "(">> \o reference[1] \o <<")", Backtick,
             " ">> \o reference[2] \o <<"*", "*", " ", Backtick>> \o vr \o <<Backtick>>
  /\ IF n = 0
     THEN p[i + 1].w = "success" /\ p[i + 1].a = <<"E", "m", "p", "t", "y", " ", "/", " ",
           "C", "l", "e", "a", "n">>
     ELSE p[i + 1].w = "warning" /\ p[i + 1].a = CountText(n) \o <<" ", "v", "a", "l", "u",
           "e", "(", "s", ")">>

PhiReported == ret.op = "generate_html_report" /\ ret.status = "ok"

PhiDrawn ==
  /\ ret.op = "main" /\ ret.status = "ok"
  /\ page[5].w = "radio" /\ page[5].a = "PHI Review"

\* C23: the PHI Review of the static document and that of the interactive page
\* hold one row for each (tag key, keyword) reference of the taxonomy, in the
\* order of the taxonomy, whatever the catalog holds; the status of a row is
\* "Empty / Clean" when the catalog has no entry for the tag key or an entry
\* without values, and the number of values otherwise, whatever the values are.
C23_OneRowPerReference ==
  /\ PhiReported =>
       LET rows == StaticPhiRows(ret.val)
           choice == ChoiceOf(disk[StdFile].lines)
       IN /\ Cardinality(rows) = Len(PhiReferences(1))
          /\ \A i \in rows :
               StaticRowShows(ret.val, i, PhiReferences(1)[RankIn(rows, i)],
                              ValueCountOf(choice, PhiReferences(1)[RankIn(rows, i)][1]))
  /\ PhiDrawn =>
       LET rows == PagePhiRows(page)
           choice == ChoiceOf(disk[StdFile].lines)
       IN /\ Cardinality(rows) = Len(PhiReferences(1))
          /\ \A i \in rows :
               PageRowShows(page, i, PhiReferences(1)[RankIn(rows, i)],
                            ValueCountOf(choice, PhiReferences(1)[RankIn(rows, i)][1]))

\* the page of a catalog with two values of PatientName, one value of spaces of
\* PatientID and no entry for InstitutionName
C23_Witness ==
  /\ PhiDrawn
  /\ ChoiceOf(disk[StdFile].lines)
       = << [listed |-> TRUE, values |-> << <<"D", "O", "E", "^", "J", "O", "H",
             "N">>, << "x" >> >>],
            [listed |-> TRUE, values |-> << <<" ">> >>],
            [listed |-> FALSE, values |-> <<>>] >>
  /\ \E i \in PagePhiRows(page) : page[i + 1].a = <<"2", " ", "v", "a", "l", "u", "e", "(",
        "s", ")">>
  /\ \E i \in PagePhiRows(page) : page[i + 1].a = <<"1", " ", "v", "a", "l", "u", "e", "(",
        "s", ")">>
-----------------------------------------------------------------------------
(* SpecWizard: sessions of the wizard, launched inside and outside XNAT,   *)
(* with and without the bundled scanner and rules                          *)

ScanDirectory == <<"/", "d", "a", "t", "a", "/", "s", "c", "a", "n">>

\* how the wizard is launched: outside XNAT with a directory to type, inside
\* XNAT on a mounted project, and each with a bundled file missing
WizardEnvs ==
  { [xnat_host |-> h[1], xnat_item |-> h[2], resources |-> r, directories |-> {h[3]}] :
      h \in { << <<>>, <<>>, ScanDirectory >>,
              << <<"x", "n", "a", "t", ".", "e", "x", "a", "m", "p", "l", "e", ".", "o",
                   "r", "g">>, <<"P", "1">>, <<"/", "d", "a", "t", "a", "/", "p", "r", "o",
                   "j", "e", "c", "t", "s", "/", "P", "1">> >> },
      r \in { {_DEFAULT_JAR, _DEFAULT_RULES, _COMPREHENSIVE_RULES},
              {_DEFAULT_RULES, _COMPREHENSIVE_RULES},
              {_DEFAULT_JAR, _COMPREHENSIVE_RULES} } }

Clicks == {<<>>, RunButton, BackButton, NewScanButton}

\* what the user types as the path: the directory between spaces, and a path
\* that is no directory
TypedPaths == {<<" ", "/", "d", "a", "t", "a", "/", "s", "c", "a", "n", " ">>, <<"/", "n",
      "o", "w", "h", "e", "r", "e">>}

ScanOutputs == {<<>>, << <<"P", "r", "o", "c", "e", "s", "s", "e", "d", " ", "1", "0", "0",
      "0", " ", "f", "i", "l", "e", "s", "\n">> >>}

\* the catalog of a second project
OtherStandardElements ==
  File(PhiLines(<< [listed |-> TRUE, values |-> << <<"D", "O", "E", "^", "J", "O", "H",
        "N">> >>],
                   [listed |-> FALSE, values |-> <<>>],
                   [listed |-> FALSE, values |-> <<>>] >>))

\* what a run of the scanner leaves: nothing, the files of the sample report,
\* those files with another catalog, and those files without the catalog
ScanWrites ==
  { EmptyDir, SampleDir, [SampleDir EXCEPT ![StdFile] = OtherStandardElements],
    Without(SampleDir, {StdFile}) }

InitWizard ==
  /\ disk = SampleDir
  /\ cache = <<>>
  /\ parsed_data = NoData
  /\ ret = NoCall
  /\ sniffer = NotStarted
  /\ page = NoPage
  /\ session = FreshSession
  /\ tmp = NoTemp
  /\ env \in WizardEnvs

NextWizard ==
  \/ \E click \in Clicks, typed \in TypedPaths, rules \in 1..Len(_RULES_OPTIONS) :
       RenderStartup(click, typed, rules)
  \/ \E click \in Clicks, java \in BOOLEAN, output \in ScanOutputs, returncode \in {0, 1},
        written \in ScanWrites :
       RenderRunning(click, java, output, returncode, written)
  \/ \E click \in Clicks, section \in Sections :
       RenderDashboard(click, section, 1, ReportStamp)

SpecWizard == InitWizard /\ [][NextWizard]_vars

HasError(p) == \E i \in 1..Len(p) : p[i].w = "error"

\* the run was started by st.rerun() or without a click on a button
NoClick(p) == \A i \in 1..Len(p) : p[i].w = "button" => ~p[i].e

StartupToRunning ==
  /\ session.state = "startup" /\ session'.state = "running"
  /\ HasButton(page, RunButton) /\ Clicked(page', RunButton)
  /\ session'.input_dir \in env.directories

RunningToStartup ==
  /\ session.state = "running" /\ session'.state = "startup"
  /\ HasButton(page, BackButton) /\ Clicked(page', BackButton)
  /\ HasError(page')

RunningToDashboard ==
  /\ session.state = "running" /\ session'.state = "dashboard"
  /\ sniffer'.pc = "done" /\ sniffer'.returncode = 0
  /\ ret'.op = "run_tag_sniffer" /\ ret'.status = "ok"
  /\ tmp'.dirs[session.output_dir].exists
  /\ tmp'.dirs[session.output_dir].files[StdFile].exists

DashboardToStartup ==
  /\ session.state = "dashboard" /\ session'.state = "startup"
  /\ HasButton(page, NewScanButton) /\ Clicked(page', NewScanButton)

WizardStep ==
  /\ session'.state \in {"startup", "running", "dashboard"}
  /\ session'.state # session.state =>
       StartupToRunning \/ RunningToStartup \/ RunningToDashboard \/ DashboardToStartup

\* C24: the state of the session starts at startup and is always startup,
\* running or dashboard; it changes only from startup to running (the Run
\* button, on a valid input directory), from running to startup (Back to Start
\* below an error), from running to dashboard (the scanner has exited with code
\* 0 and standard_elements.txt is in the output directory) and from dashboard
\* to startup (Run New Scan).
C24_WizardTransitions == session.state = "startup" /\ [][WizardStep]_vars

\* a session that has made each of the four transitions: a failed scan, back to
\* the start, a scan that succeeds, the dashboard, and a new scan
C24_Witness ==
  /\ session.state = "startup"
  /\ Clicked(page, NewScanButton)
  /\ tmp.made = 2
  /\ sniffer.pc = "done" /\ sniffer.returncode = 0
-----------------------------------------------------------------------------
(* the data and the report kept in the session                             *)

\* the files of the directory the session scans into
OutputFiles == tmp.dirs[session.output_dir].files

\* the data kept were parsed from the files of the output directory
DataOfOutputDir ==
  /\ session.output_dir # 0
  /\ \E l \in {LoadReportData(OutputFiles, <<>>)} : l.status = "ok" /\ parsed_data.data = l.data

\* the report kept was generated from the files of the output directory
ReportOfOutputDir ==
  /\ session.output_dir # 0
  /\ \E r \in {generate_html_report(OutputFiles, <<>>, session.project_name, ReportStamp)} :
       r.out.status = "ok" /\ session.html_report.doc = r.out.val

KeptForDashboard ==
  /\ parsed_data.present => session.state = "dashboard" /\ DataOfOutputDir
  /\ session.html_report.present => session.state = "dashboard" /\ ReportOfOutputDir

BuiltOnce ==
  /\ parsed_data.present /\ parsed_data'.present => parsed_data' = parsed_data
  /\ session.html_report.present /\ session'.html_report.present
       => session'.html_report = session.html_report

\* C25: the session holds parsed_data and html_report only in state dashboard;
\* what it holds was computed from the files of the current output_dir, is not
\* computed again while it is held, and is dropped when a new scan begins.
C25_KeptPerScan == []KeptForDashboard /\ [][BuiltOnce]_vars

\* the dashboard of a second scan, of another catalog, after the directory of
\* the first scan was removed
C25_Witness ==
  /\ session.state = "dashboard"
  /\ parsed_data.present /\ session.html_report.present
  /\ session.output_dir = 2 /\ ~tmp.dirs[1].exists
  /\ OutputFiles[StdFile] = OtherStandardElements
  /\ DataOfOutputDir
-----------------------------------------------------------------------------
(* the ways out of the running screen                                      *)

\* the page is that of a run of render_running that has ended
RunningScreen ==
  /\ session.state = "running"
  /\ Len(page) > 0 /\ page[1] = W("header", <<"R", "u", "n", "n", "i", "n", "g", " ", "P",
        "H", "I", " ", "D", "e", "t", "e", "c", "t", "i", "o", "n", ".", ".", ".">>)[1]

\* the scanner JAR or the chosen rules file is not among the bundled files
ResourceMissing ==
  _DEFAULT_JAR \notin env.resources \/ session.rules_path \notin env.resources

\* C26 as stated: a run of render_running either moves the session on or
\* leaves a page with a button that returns the session to startup.
C26_AsStated == RunningScreen => HasButton(page, BackButton)

\* the running screen when the scanner JAR is missing: an error and no button
C26_DeadEnd ==
  /\ RunningScreen
  /\ _DEFAULT_JAR \notin env.resources
  /\ HasError(page) /\ ~HasButton(page, BackButton)

\* from the running screen without a button no step leaves state running
C26_Stuck == [][RunningScreen /\ ~HasButton(page, BackButton) => session'.state = "running"]_vars
-----------------------------------------------------------------------------
(* the temporary directories of a session                                  *)

\* the temporary directories the session made that are on disk
ExistingTemps == {i \in 1..MaxScans : tmp.dirs[i].exists}

\* C27 as stated: of the temporary directories the session has made, at most
\* one is on disk: a directory is removed before or when it stops being the
\* output_dir of the session.
C27_AsStated == Cardinality(ExistingTemps) <= 1

\* after an error on the running screen, Back to Start and a second Run, the
\* directory of the first Run is on disk beside that of the second
C27_Leftover ==
  /\ session.state = "running" /\ session.output_dir = 2
  /\ tmp.dirs[1].exists /\ tmp.dirs[2].exists

\* a directory is removed only while it is the output_dir, by Run New Scan
C27_RemovedByNewScan ==
  [][\A i \in 1..MaxScans : tmp.dirs[i].exists /\ ~tmp'.dirs[i].exists
        => session.state = "dashboard" /\ session.output_dir = i
           /\ Clicked(page', NewScanButton)]_vars
-----------------------------------------------------------------------------
(* SpecPanes: the dashboard and the static report on report directories    *)
(* that lack some of the files                                             *)

PrivSeqFile == "private_sequences.txt"

\* the files a report directory can lack
OptionalFiles == {StdFile, PrivFile, SeqFile, PrivSeqFile, CountsFile, LargeFile}

InitPanes ==
  /\ disk \in {Without(SampleDir, missing) : missing \in SUBSET OptionalFiles}
  /\ cache = <<>>
  /\ parsed_data = NoData
  /\ ret = NoCall
  /\ sniffer = NotStarted
  /\ IdleWizard

NextPanes ==
  \/ \E section \in Sections : Main(section, 1)
  \/ GenerateHtmlReport(<<>>, ReportStamp)

SpecPanes == InitPanes /\ [][NextPanes]_vars

\* the data of the report directory
DirectoryData == LoadReportData(disk, <<>>).data

\* main() has drawn the section
Drawn(section) ==
  /\ ret.op = "main" /\ ret.status = "ok"
  /\ page[5].w = "radio" /\ page[5].a = section

HasSelectbox(p, label) == \E i \in 1..Len(p) : p[i].w = "selectbox" /\ p[i].a = label

\* C28 as stated: the Tag Explorer of the dashboard draws the pane of the private
\* elements whenever the private mapping is not empty and the pane of the
\* sequences whenever the merged sequences are not empty, whether or not the
\* standard catalog or the private mapping is empty.
C28_AsStated ==
  Drawn("Tag Explorer") =>
    /\ DirectoryData["priv_elements"] # <<>>
         => HasSelectbox(page, <<"S", "e", "l", "e", "c", "t", " ", "a", " ", "p", "r",
               "i", "v", "a", "t", "e", " ", "e", "l", "e", "m", "e", "n", "t">>)
    /\ AllSequences(DirectoryData["std_sequences"], DirectoryData["priv_sequences"]) # <<>>
         => HasSelectbox(page, <<"S", "e", "l", "e", "c", "t", " ", "a", " ", "s", "e",
               "q", "u", "e", "n", "c", "e", " ", "e", "l", "e", "m", "e", "n", "t">>)

\* the Tag Explorer of a directory without standard_elements.txt: private
\* elements and sequences are there, and none of their panes is drawn
C28_PanesHidden ==
  /\ Drawn("Tag Explorer")
  /\ DirectoryData["std_elements"] = <<>>
  /\ DirectoryData["priv_elements"] # <<>>
  /\ DirectoryData["std_sequences"] # <<>>
  /\ ~HasSelectbox(page, <<"S", "e", "l", "e", "c", "t", " ", "a", " ", "p", "r", "i", "v",
        "a", "t", "e", " ", "e", "l", "e", "m", "e", "n", "t">>)
  /\ ~HasSelectbox(page, <<"S", "e", "l", "e", "c", "t", " ", "a", " ", "s", "e", "q", "u",
        "e", "n", "c", "e", " ", "e", "l", "e", "m", "e", "n", "t">>)
  /\ page[Len(page)] = W("info", <<"N", "o", " ", "s", "t", "a", "n", "d", "a", "r", "d",
        " ", "e", "l", "e", "m", "e", "n", "t", "s", " ", "f", "o", "u", "n", "d">>)[1]

\* what does hold: a pane is drawn exactly when its data and the data of the
\* panes before it are not empty
C28_PanesInTurn ==
  Drawn("Tag Explorer") =>
    /\ HasSelectbox(page, <<"S", "e", "l", "e", "c", "t", " ", "a", " ", "p", "r", "i",
          "v", "a", "t", "e", " ", "e", "l", "e", "m", "e", "n", "t">>)
         <=> DirectoryData["std_elements"] # <<>> /\ DirectoryData["priv_elements"] # <<>>
    /\ HasSelectbox(page, <<"S", "e", "l", "e", "c", "t", " ", "a", " ", "s", "e", "q",
          "u", "e", "n", "c", "e", " ", "e", "l", "e", "m", "e", "n", "t">>)
         <=> /\ DirectoryData["std_elements"] # <<>> /\ DirectoryData["priv_elements"] # <<>>
             /\ AllSequences(DirectoryData["std_sequences"], DirectoryData["priv_sequences"]) # <<>>
-----------------------------------------------------------------------------
(* the large private elements in the two Study Summaries                   *)

\* the page holds the warning of the large private elements and their table
PagePresentsLarge(p, large_priv) ==
  \E i \in 1..(Len(p) - 1) :
     /\ p[i].w = "warning" /\ SubSeq(p[i].a, 1, 31) = <<"L", "a", "r", "g", "e", " ", "p",
           "r", "i", "v", "a", "t", "e", " ", "e", "l", "e", "m", "e", "n", "t", "s", " ",
           "d", "e", "t", "e", "c", "t", "e", "d">>
     /\ p[i + 1].w = "dataframe" /\ p[i + 1].d = large_priv

\* the document holds the warning of the large private elements and their table
DocPresentsLarge(doc) ==
  \E i \in 1..Len(doc), j \in 1..Len(doc) :
     /\ doc[i] = Lit("<div class=\"warning-box\">Large private elements detected. These are SHA-256 hashes of private data elements exceeding size thresholds.</div>")[1]
     /\ i < j
     /\ doc[j] = Lit("<div class=\"table-scroll\"><table><tr><th>SHA-256 Hash</th><th>Occurrences</th></tr>")[1]

Reported == ret.op = "generate_html_report" /\ ret.status = "ok"

\* C29 as stated: the Study Summary of the dashboard and that of the static
\* document present the warning and the table of the large private elements
\* exactly when large_priv is not empty, also when counts is empty.
C29_AsStated ==
  /\ Reported => (DocPresentsLarge(ret.val) <=> DirectoryData["large_priv"] # <<>>)
  /\ Drawn("Study Summary")
       => (PagePresentsLarge(page, DirectoryData["large_priv"])
             <=> DirectoryData["large_priv"] # <<>>)

\* the Study Summary of a directory with large private elements and without
\* counts.txt: the page ends at "No study data found"
C29_LargeHidden ==
  /\ Drawn("Study Summary")
  /\ DirectoryData["counts"] = <<>> /\ DirectoryData["large_priv"] # <<>>
  /\ ~PagePresentsLarge(page, DirectoryData["large_priv"])
  /\ page[Len(page)] = W("info", <<"N", "o", " ", "s", "t", "u", "d", "y", " ", "d", "a",
        "t", "a", " ", "f", "o", "u", "n", "d">>)[1]

\* what does hold: the static document presents them whenever there are some,
\* the page only when counts is not empty as well
C29_PageNeedsCounts ==
  /\ Reported => (DocPresentsLarge(ret.val) <=> DirectoryData["large_priv"] # <<>>)
  /\ Drawn("Study Summary")
       => (PagePresentsLarge(page, DirectoryData["large_priv"])
             <=> DirectoryData["large_priv"] # <<>> /\ DirectoryData["counts"] # <<>>)

====
